---- MODULE Spec2Model ----
(***************************************************************************)
(* Front end of the Bolt prototype compiler: the token stream that the     *)
(* layout filter (Punctuator) hands to the parser, the recursive-descent   *)
(* parser of src/src/Parser.cc, the CST accessors of                       *)
(* src/include/bolt/CST.hpp and the driver of src/src/main.cc.             *)
(*                                                                         *)
(* Scanner.cc, CST.cc and Checker.cc are not part of the source tree; the  *)
(* definitions that stand for them follow the written specification and    *)
(* are marked as such where they are defined.                              *)
(***************************************************************************)
EXTENDS Integers, Sequences, FiniteSets, TLC

(***************************************************************************)
(* Bounds of the model.                                                    *)
(***************************************************************************)
MaxLines == 3

MaxCol == 3

MaxExtraReads == 2

(* Lines of a file the dependency graph is built for *)
MaxGraphLines == 3

(* Unification variables of the types that are unified *)
MaxTypeVars == 2

(* Infix operators of a parsed expression, and the precedences they have *)
MaxOperators == 3

MaxPrecedence == 2

(* Tokens of the short streams handed to the parser, and parameters of the *)
(* let declarations among the longer ones                                  *)
MaxTokens == 3

MaxParams == 1

(* Bytes of a text added to a TextLoc *)
MaxTextLen == 3

(* Most calls of ref() and unref() made on one node *)
MaxCalls == 7

(***************************************************************************)
(* Tokens.  A token is a record [kind, text, line, col]; text is the       *)
(* rendered text as a tuple of one-character strings.                      *)
(***************************************************************************)
SyntheticKinds == {"BlockStart", "BlockEnd", "LineFoldEnd", "EndOfFile"}

Token(kind, text, line, col) == [kind |-> kind, text |-> text, line |-> line, col |-> col]

(* Rendered text of the fixed tokens *)
LetText == << "l", "e", "t" >>

PubText == << "p", "u", "b" >>

MutText == << "m", "u", "t" >>

(* The physical lines a source file is made of, as lists of (kind, text).  *)
(* Lines that occur anywhere in a file:                                    *)
(*   1   |   f   |   let f =   |   let f x = 1                             *)
CommonShapes ==
  << << <<"IntegerLiteral", <<"1">> >> >>,
     << <<"Identifier", <<"f">> >> >>,
     << <<"LetKeyword", LetText>>, <<"Identifier", <<"f">> >>, <<"Equals", <<"=">> >> >>,
     << <<"LetKeyword", LetText>>, <<"Identifier", <<"f">> >>, <<"Identifier", <<"x">> >>,
        <<"Equals", <<"=">> >>, <<"IntegerLiteral", <<"1">> >> >>
  >>

(* Lines that occur as one-line files:                                     *)
(*   let a : Int = "f"   |   pub let mut g                                 *)
(*   let r : (Show a) => a = show   |   let r : a = show                   *)
SingleShapes ==
  << << <<"LetKeyword", LetText>>, <<"Identifier", <<"a">> >>, <<"Colon", <<":">> >>,
        <<"IdentifierAlt", <<"I","n","t">> >>, <<"Equals", <<"=">> >>,
        <<"StringLiteral", <<"\"","f","\"">> >> >>,
     << <<"PubKeyword", PubText>>, <<"LetKeyword", LetText>>, <<"MutKeyword", MutText>>,
        <<"Identifier", <<"g">> >> >>,
     << <<"LetKeyword", LetText>>, <<"Identifier", <<"r">> >>, <<"Colon", <<":">> >>,
        <<"LParen", <<"(">> >>, <<"IdentifierAlt", <<"S","h","o","w">> >>,
        <<"Identifier", <<"a">> >>, <<"RParen", <<")">> >>, <<"RArrowAlt", <<"=",">">> >>,
        <<"Identifier", <<"a">> >>, <<"Equals", <<"=">> >>,
        <<"Identifier", <<"s","h","o","w">> >> >>,
     << <<"LetKeyword", LetText>>, <<"Identifier", <<"r">> >>, <<"Colon", <<":">> >>,
        <<"Identifier", <<"a">> >>, <<"Equals", <<"=">> >>,
        <<"Identifier", <<"s","h","o","w">> >> >>
  >>

(* Lines of the files the dependency graph is built for:                   *)
(*   let g = f   |   let f x = x   |   let f                               *)
ReferenceShapes ==
  << << <<"LetKeyword", LetText>>, <<"Identifier", <<"g">> >>, <<"Equals", <<"=">> >>,
        <<"Identifier", <<"f">> >> >>,
     << <<"LetKeyword", LetText>>, <<"Identifier", <<"f">> >>, <<"Identifier", <<"x">> >>,
        <<"Equals", <<"=">> >>, <<"Identifier", <<"x">> >> >>,
     << <<"LetKeyword", LetText>>, <<"Identifier", <<"f">> >> >>
  >>

(* Lines with an expression of more than one token:                       *)
(*   let loop f = f f                                                      *)
(*   let even n = if n == 0 . True else . odd (n - 1)                      *)
(*   let odd n = if n == 0 . False else . even (n - 1)                     *)
IfThenElse(Then, Else) ==
  << <<"IfKeyword", <<"i","f">> >>, <<"Identifier", <<"n">> >>,
     <<"CustomOperator", <<"=","=">> >>, <<"IntegerLiteral", <<"0">> >>,
     <<"Dot", <<".">> >>, <<"IdentifierAlt", Then>>,
     <<"ElseKeyword", <<"e","l","s","e">> >>, <<"Dot", <<".">> >>,
     <<"Identifier", Else>>, <<"LParen", <<"(">> >>, <<"Identifier", <<"n">> >>,
     <<"CustomOperator", <<"-">> >>, <<"IntegerLiteral", <<"1">> >>, <<"RParen", <<")">> >> >>

CompoundShapes ==
  << << <<"LetKeyword", LetText>>, <<"Identifier", <<"l","o","o","p">> >>,
        <<"Identifier", <<"f">> >>, <<"Equals", <<"=">> >>,
        <<"Identifier", <<"f">> >>, <<"Identifier", <<"f">> >> >>,
     << <<"LetKeyword", LetText>>, <<"Identifier", <<"e","v","e","n">> >>,
        <<"Identifier", <<"n">> >>, <<"Equals", <<"=">> >> >>
       \o IfThenElse(<<"T","r","u","e">>, <<"o","d","d">>),
     << <<"LetKeyword", LetText>>, <<"Identifier", <<"o","d","d">> >>,
        <<"Identifier", <<"n">> >>, <<"Equals", <<"=">> >> >>
       \o IfThenElse(<<"F","a","l","s","e">>, <<"e","v","e","n">>)
  >>

LineShapes == CommonShapes \o SingleShapes \o ReferenceShapes \o CompoundShapes

(* The index in LineShapes of the k-th line of CompoundShapes *)
Compound(k) == Len(CommonShapes) + Len(SingleShapes) + Len(ReferenceShapes) + k

(* The file of the mutually recursive even and odd *)
EvenOdd == << [col |-> 1, shape |-> Compound(2)], [col |-> 1, shape |-> Compound(3)] >>

(* The index in LineShapes of the header `let f`, the last reference shape *)
LetHeader == Len(CommonShapes) + Len(SingleShapes) + Len(ReferenceShapes)

(* The files of a let declaration whose header is followed by an indented  *)
(* line:   let f   |   let f                                               *)
(*           1     |     f                                                 *)
LetBlocks ==
  { << [col |-> 1, shape |-> LetHeader], [col |-> 2, shape |-> k] >> : k \in 1..2 }

NumCommon == Len(CommonShapes)

NumShapes == Len(LineShapes)

SourceLine == [col : 1..MaxCol, shape : 1..NumShapes]

SourceTexts ==
  UNION { [1..n -> [col : 1..MaxCol, shape : 1..NumCommon]] : n \in 0..MaxLines }
    \cup [1..1 -> SourceLine]
    \cup { EvenOdd }
    \cup LetBlocks

(* The files the dependency graph is built for: lines at column 1 or 2 *)
GraphLine ==
  [col : 1..2,
   shape : {2, 4} \cup { Len(CommonShapes) + Len(SingleShapes) + k : k \in DOMAIN ReferenceShapes }]

GraphTexts == UNION { [1..n -> GraphLine] : n \in 1..MaxGraphLines }

(* Column of the k-th token of a line that starts at column c0: tokens are *)
(* separated by one blank.                                                 *)
RECURSIVE TokenCol(_, _, _)
TokenCol(shape, c0, k) ==
  IF k = 1 THEN c0
  ELSE TokenCol(shape, c0, k - 1) + Len(shape[k - 1][2]) + 1

LineTokens(ln, line) ==
  LET shape == LineShapes[line.shape]
  IN  [k \in 1..Len(shape) |->
         Token(shape[k][1], shape[k][2], ln, TokenCol(shape, line.col, k))]

RECURSIVE Scan(_, _)
Scan(text, ln) ==
  IF ln > Len(text) THEN << >>
  ELSE LineTokens(ln, text[ln]) \o Scan(text, ln + 1)

(***************************************************************************)
(* Layout filter (Punctuator), section 4.D of the specification.           *)
(* Its state: the stack of open block columns (innermost first), the index *)
(* of the next raw token, the tokens already decided but not yet read, and  *)
(* whether the end of the raw stream has been flushed.                      *)
(***************************************************************************)
LayoutIntroducers == {"Dot", "Equals"}

PunctuatorInit == [stack |-> << >>, rpos |-> 1, queue |-> << >>, flushed |-> FALSE]

EndOfFileToken(raw) ==
  IF raw = << >> THEN Token("EndOfFile", << >>, 1, 1)
  ELSE LET last == raw[Len(raw)]
       IN  Token("EndOfFile", << >>, last.line, last.col + Len(last.text))

RawAt(raw, i) == IF i <= Len(raw) THEN raw[i] ELSE EndOfFileToken(raw)

(* The first token of a physical line other than the first of the file *)
IsLineStart(raw, i) == i > 1 /\ i <= Len(raw) /\ raw[i].line > raw[i - 1].line

BlockPending(raw, i) == i > 1 /\ raw[i - 1].kind \in LayoutIntroducers

BlockColumn(stack) == IF stack = << >> THEN 1 ELSE Head(stack)

Synthetic(kind, T0) == Token(kind, << >>, T0.line, T0.col)

(* PopBlocks that emits the BlockEnd tokens and forgets to pop *)
PopBlocksKeepStack(stack, T0) ==
  [tokens |-> [i \in 1..Cardinality({k \in DOMAIN stack : stack[k] > T0.col}) |->
                 Synthetic("BlockEnd", T0)],
   stack |-> stack]

RECURSIVE PopBlocks(_, _)
PopBlocks(stack, T0) ==
  IF stack # << >> /\ Head(stack) > T0.col
  THEN LET rest == PopBlocks(Tail(stack), T0)
       IN  [tokens |-> << Synthetic("BlockEnd", T0) >> \o rest.tokens, stack |-> rest.stack]
  ELSE [tokens |-> << >>, stack |-> stack]

(* Rule 1: what is injected before the first token T0 of a line *)
LayoutDeeper(stack, T0, pending) ==
  IF pending
  THEN [tokens |-> << Synthetic("BlockStart", T0) >>, stack |-> << T0.col >> \o stack, starts |-> TRUE]
  ELSE [tokens |-> << >>, stack |-> stack, starts |-> FALSE]

LayoutEqual(stack, T0) ==
  [tokens |-> << Synthetic("LineFoldEnd", T0) >>, stack |-> stack, starts |-> TRUE]

LayoutShallower(stack, T0) ==
  LET popped == PopBlocks(stack, T0)
  IN  [tokens |-> popped.tokens \o << Synthetic("LineFoldEnd", T0) >>,
       stack |-> popped.stack, starts |-> TRUE]

LayoutBefore(stack, T0, pending) ==
  IF T0.col > BlockColumn(stack) THEN LayoutDeeper(stack, T0, pending)
  ELSE IF T0.col = BlockColumn(stack) THEN LayoutEqual(stack, T0)
  ELSE LayoutShallower(stack, T0)

(* Rule 3: the tokens that end the stream *)
FlushTokens(stack, T0) ==
  [i \in 1..Len(stack) |-> Synthetic("BlockEnd", T0)]
    \o << Synthetic("LineFoldEnd", T0), T0 >>

(* AfterFlush that closes a line fold again on every later read *)
AfterFlushLineFold(T0) == Synthetic("LineFoldEnd", T0)

(* What is read once the end of the stream has been flushed *)
AfterFlush(T0) == T0

(* One read of the filtered stream: the token returned and the next state *)
PunctuatorRead(raw, P) ==
  LET T0 == RawAt(raw, P.rpos)
  IN  IF P.queue # << >>
      THEN [token |-> Head(P.queue), next |-> [P EXCEPT !.queue = Tail(P.queue)],
            starts |-> FALSE, flushing |-> FALSE]
      ELSE IF P.flushed
      THEN [token |-> AfterFlush(T0), next |-> P, starts |-> FALSE, flushing |-> FALSE]
      ELSE IF T0.kind = "EndOfFile"
      THEN LET toks == FlushTokens(P.stack, T0)
           IN  [token |-> Head(toks),
                next |-> [stack |-> << >>, rpos |-> P.rpos, queue |-> Tail(toks), flushed |-> TRUE],
                starts |-> FALSE, flushing |-> TRUE]
      ELSE LET lay == IF IsLineStart(raw, P.rpos)
                      THEN LayoutBefore(P.stack, T0, BlockPending(raw, P.rpos))
                      ELSE [tokens |-> << >>, stack |-> P.stack, starts |-> P.rpos = 1]
               toks == lay.tokens \o << T0 >>
           IN  [token |-> Head(toks),
                next |-> [stack |-> lay.stack, rpos |-> P.rpos + 1, queue |-> Tail(toks),
                          flushed |-> FALSE],
                starts |-> lay.starts, flushing |-> FALSE]

(***************************************************************************)
(* CST nodes and the parser of src/src/Parser.cc.                          *)
(* The parser works on toks, the filtered stream up to its first           *)
(* EndOfFile; the stream keeps returning that EndOfFile afterwards.        *)
(* A parsing function takes the index of the next unread token and yields  *)
(* either a node and the new index or the thrown UnexpectedTokenDiagnostic.*)
(***************************************************************************)
Null == [kind |-> "Null"]

(* The value of a pointer that was never initialized and is not null *)
Garbage == [kind |-> "Garbage"]

UninitializedPointers == {Null, Garbage}

Tok(toks, i) == IF i <= Len(toks) THEN toks[i] ELSE toks[Len(toks)]

Ok(node, pos) == [ok |-> TRUE, pos |-> pos, node |-> node, token |-> Null, expected |-> << >>]

UnexpectedTokenDiagnostic(tok, expected) ==
  [ok |-> FALSE, pos |-> 0, node |-> Null, token |-> tok, expected |-> expected]

RECURSIVE peekFirstTokenAfterModifiers(_, _)
peekFirstTokenAfterModifiers(toks, i) ==
  IF Tok(toks, i).kind \in {"PubKeyword", "MutKeyword"}
  THEN peekFirstTokenAfterModifiers(toks, i + 1)
  ELSE Tok(toks, i)

ExpectToken(toks, i, kind) ==
  IF Tok(toks, i).kind # kind
  THEN UnexpectedTokenDiagnostic(Tok(toks, i), << kind >>)
  ELSE Ok(Tok(toks, i), i + 1)

(* A pattern parser that takes whatever token is there for a name *)
parsePatternOfAnyToken(toks, i) ==
  Ok([kind |-> "BindPattern", Name |-> Tok(toks, i)], i + 1)

parsePattern(toks, i) ==
  IF Tok(toks, i).kind = "Identifier"
  THEN Ok([kind |-> "BindPattern", Name |-> Tok(toks, i)], i + 1)
  ELSE UnexpectedTokenDiagnostic(Tok(toks, i), << "Identifier" >>)

RECURSIVE QualifiedNameLoop(_, _, _, _)
QualifiedNameLoop(toks, j, ModulePath, Name) ==
  IF Tok(toks, j).kind = "Dot"
  THEN Ok([kind |-> "QualifiedName", ModulePath |-> ModulePath, Name |-> Name], j)
  ELSE IF Tok(toks, j + 1).kind # "Identifier"
  THEN UnexpectedTokenDiagnostic(Tok(toks, j + 1), << "Identifier" >>)
  ELSE QualifiedNameLoop(toks, j + 2, Append(ModulePath, Name), Tok(toks, j + 1))

parseQualifiedName(toks, i) ==
  IF Tok(toks, i).kind # "Identifier"
  THEN UnexpectedTokenDiagnostic(Tok(toks, i), << "Identifier" >>)
  ELSE QualifiedNameLoop(toks, i + 1, << >>, Tok(toks, i))

parseTypeExpression(toks, i) ==
  LET Reference(QN) ==
        IF QN.ok
        THEN Ok([kind |-> "ReferenceTypeExpression", Name |-> QN.node], QN.pos)
        ELSE QN
  IN  IF Tok(toks, i).kind = "Identifier"
      THEN Reference(parseQualifiedName(toks, i))
      ELSE UnexpectedTokenDiagnostic(Tok(toks, i), << "Identifier" >>)

(* parseExpression without the literal cases *)
parseExpressionNoLiteral(toks, i) ==
  LET T0 == Tok(toks, i)
  IN  IF T0.kind = "Identifier"
      THEN Ok([kind |-> "ReferenceExpression", Name |-> T0], i + 1)
      ELSE UnexpectedTokenDiagnostic(T0, << "Identifier", "IntegerLiteral" >>)

parseExpression(toks, i) ==
  LET T0 == Tok(toks, i)
  IN  IF T0.kind = "Identifier"
      THEN Ok([kind |-> "ReferenceExpression", Name |-> T0], i + 1)
      ELSE IF T0.kind \in {"IntegerLiteral", "StringLiteral"}
      THEN Ok([kind |-> "ConstantExpression", Token |-> T0], i + 1)
      ELSE UnexpectedTokenDiagnostic(T0, << "Identifier", "IntegerLiteral" >>)

parseExpressionStatement(toks, i) ==
  LET Statement(E, L) ==
        IF ~L.ok THEN L
        ELSE Ok([kind |-> "ExpressionStatement", Expression |-> E.node], L.pos)
      AfterExpression(E) ==
        IF ~E.ok THEN E
        ELSE Statement(E, ExpectToken(toks, E.pos, "LineFoldEnd"))
  IN  AfterExpression(parseExpression(toks, i))

(* The parameter loop of parseLetDeclaration: result node is the list of Params *)
RECURSIVE ParamLoop(_, _, _)
ParamLoop(toks, j, Params) ==
  IF Tok(toks, j).kind \in {"LineFoldEnd", "BlockStart", "Equals", "Colon"}
  THEN Ok(Params, j)
  ELSE LET NextParam(P) ==
             IF ~P.ok THEN P
             ELSE ParamLoop(toks, P.pos,
                    Append(Params, [kind |-> "Param", Pattern |-> P.node, TypeAssert |-> Null]))
       IN  NextParam(parsePattern(toks, j))

LetBodyExpected(TA) ==
  << "BlockStart", "LineFoldEnd", "Equals" >>
    \o (IF TA = Null THEN << "Colon", "Identifier" >> ELSE << >>)

RECURSIVE parseLetDeclaration(_, _, _)
RECURSIVE parseLetBodyElement(_, _, _)
RECURSIVE BlockLoop(_, _, _, _)

(* The element loop of a block body: result node is the list of elements *)
BlockLoop(toks, j, Elements, uninit) ==
  IF Tok(toks, j).kind = "BlockEnd"
  THEN Ok(Elements, j)
  ELSE LET AfterBodyElement(E) ==
             IF ~E.ok THEN E
             ELSE BlockLoop(toks, E.pos, Append(Elements, E.node), uninit)
       IN  AfterBodyElement(parseLetBodyElement(toks, j, uninit))

(* The body switch of parseLetDeclaration, at the peeked token T2 = Tok(j) *)
LetBody(toks, j, TA, uninit) ==
  LET T2 == Tok(toks, j)
      BlockBody(B) ==
        IF ~B.ok THEN B
        ELSE Ok([kind |-> "LetBlockBody", BlockStart |-> T2, Elements |-> B.node], B.pos + 1)
      ExprBody(E) ==
        IF ~E.ok THEN E
        ELSE Ok([kind |-> "LetExprBody", Equals |-> T2, Expression |-> E.node], E.pos)
  IN  IF T2.kind = "BlockStart"
      THEN BlockBody(BlockLoop(toks, j + 1, << >>, uninit))
      ELSE IF T2.kind = "Equals"
      THEN ExprBody(parseExpression(toks, j + 1))
      ELSE IF T2.kind = "LineFoldEnd"
      THEN Ok(Null, j)
      ELSE UnexpectedTokenDiagnostic(T2, LetBodyExpected(TA))

(* parseLetDeclaration after the let keyword has been read.  The steps are *)
(* listed last to first: each one gets the results of those before it and  *)
(* returns what was thrown as soon as one of them threw.                    *)
LetAfterKeyword(toks, j, Pub, Let, uninit) ==
  LET T1   == Tok(toks, j)
      Mut  == IF T1.kind = "MutKeyword" THEN T1 ELSE uninit
      j1   == IF T1.kind = "MutKeyword" THEN j + 1 ELSE j
      (* expect the LineFoldEnd and build the node *)
      Finish(Patt, Ps, TA, Body, L) ==
        IF ~L.ok THEN L
        ELSE Ok([kind |-> "LetDeclaration",
                 PubKeyword |-> Pub, LetKeyword |-> Let, MutKeyword |-> Mut,
                 Pattern |-> Patt.node, Params |-> Ps.node,
                 TypeAssert |-> TA, Body |-> Body.node], L.pos)
      AfterBody(Patt, Ps, TA, Body) ==
        IF ~Body.ok THEN Body
        ELSE Finish(Patt, Ps, TA, Body, ExpectToken(toks, Body.pos, "LineFoldEnd"))
      (* the body, after the optional type assertion TA that ended before k *)
      AfterTypeAssert(Patt, Ps, TA, k) ==
        AfterBody(Patt, Ps, TA, LetBody(toks, k, TA, uninit))
      AfterTypeExpression(Patt, Ps, T2, TE) ==
        IF ~TE.ok THEN TE
        ELSE AfterTypeAssert(Patt, Ps,
               [kind |-> "TypeAssert", Colon |-> T2, TypeExpression |-> TE.node], TE.pos)
      (* the optional type assertion, at the peeked token T2 *)
      AfterParams(Patt, Ps) ==
        IF ~Ps.ok THEN Ps
        ELSE IF Tok(toks, Ps.pos).kind = "Colon"
        THEN AfterTypeExpression(Patt, Ps, Tok(toks, Ps.pos),
               parseTypeExpression(toks, Ps.pos + 1))
        ELSE AfterTypeAssert(Patt, Ps, Null, Ps.pos)
      AfterPattern(Patt) ==
        IF ~Patt.ok THEN Patt
        ELSE AfterParams(Patt, ParamLoop(toks, Patt.pos, << >>))
  IN  AfterPattern(parsePattern(toks, j1))

parseLetDeclaration(toks, i, uninit) ==
  LET First == Tok(toks, i)
      Pub   == IF First.kind = "PubKeyword" THEN First ELSE uninit
      T0    == IF First.kind = "PubKeyword" THEN Tok(toks, i + 1) ELSE First
      j     == IF First.kind = "PubKeyword" THEN i + 2 ELSE i + 1
  IN  IF T0.kind # "LetKeyword"
      THEN UnexpectedTokenDiagnostic(T0, << "LetKeyword" >>)
      ELSE LetAfterKeyword(toks, j, Pub, T0, uninit)

parseLetBodyElement(toks, i, uninit) ==
  IF peekFirstTokenAfterModifiers(toks, i).kind = "LetKeyword"
  THEN parseLetDeclaration(toks, i, uninit)
  ELSE parseExpressionStatement(toks, i)

parseSourceElement(toks, i, uninit) ==
  IF peekFirstTokenAfterModifiers(toks, i).kind = "LetKeyword"
  THEN parseLetDeclaration(toks, i, uninit)
  ELSE parseExpressionStatement(toks, i)

RECURSIVE SourceFileLoop(_, _, _, _)
SourceFileLoop(toks, i, Elements, uninit) ==
  IF Tok(toks, i).kind = "EndOfFile"
  THEN Ok([kind |-> "SourceFile", Elements |-> Elements], i)
  ELSE LET AfterSourceElement(E) ==
             IF ~E.ok THEN E
             ELSE SourceFileLoop(toks, E.pos, Append(Elements, E.node), uninit)
       IN  AfterSourceElement(parseSourceElement(toks, i, uninit))

parseSourceFile(toks, uninit) == SourceFileLoop(toks, 1, << >>, uninit)

(***************************************************************************)
(* Source locations and CST accessors, src/include/bolt/CST.hpp.           *)
(***************************************************************************)
TextLoc(line, col) == [Line |-> line, Column |-> col]

(* An advance that forgets to start a new line at column 1 *)
RECURSIVE advanceKeepingColumn(_, _)
advanceKeepingColumn(loc, Text) ==
  IF Text = << >> THEN loc
  ELSE advanceKeepingColumn(IF Head(Text) = "\n"
                            THEN [Line |-> loc.Line + 1, Column |-> loc.Column]
                            ELSE [Line |-> loc.Line, Column |-> loc.Column + 1],
                            Tail(Text))

RECURSIVE advance(_, _)
advance(loc, Text) ==
  IF Text = << >> THEN loc
  ELSE advance(IF Head(Text) = "\n"
               THEN [Line |-> loc.Line + 1, Column |-> 1]
               ELSE [Line |-> loc.Line, Column |-> loc.Column + 1],
               Tail(Text))

TextLocPlus(loc, Text) == advance([Line |-> loc.Line, Column |-> loc.Column], Text)

TokenKinds ==
  { "Equals", "Colon", "Dot", "LParen", "RParen", "RArrowAlt", "LetKeyword", "MutKeyword",
    "PubKeyword", "Identifier", "IdentifierAlt", "StringLiteral", "IntegerLiteral",
    "IfKeyword", "ElseKeyword", "CustomOperator" }
    \cup SyntheticKinds

IsToken(n) == n.kind \in TokenKinds

(* What a call that runs into ZEN_UNREACHABLE yields: the program aborts *)
Unreachable == [kind |-> "Unreachable"]

getStartLoc(tok) == TextLoc(tok.line, tok.col)

getEndLoc(tok) == TextLocPlus(getStartLoc(tok), tok.text)

Range(seq) == { seq[i] : i \in DOMAIN seq }

Last(seq) == seq[Len(seq)]

(* Token::getFirstToken and Token::getLastToken *)
TokenGetFirstToken(tok) == Unreachable

TokenGetLastToken(tok) == Unreachable

(* The first token of a node that is not a token *)
RECURSIVE getFirstToken(_)
getFirstToken(n) ==
  IF IsToken(n) THEN TokenGetFirstToken(n)
  ELSE IF n.kind = "SourceFile"
  THEN IF n.Elements = << >> THEN Null ELSE getFirstToken(Head(n.Elements))
  ELSE IF n.kind = "ExpressionStatement" THEN getFirstToken(n.Expression)
  ELSE IF n.kind = "ReferenceExpression" THEN n.Name
  ELSE IF n.kind = "ConstantExpression" THEN n.Token
  ELSE IF n.kind = "BindPattern" THEN n.Name
  ELSE IF n.kind = "Param" THEN getFirstToken(n.Pattern)
  ELSE IF n.kind = "TypeAssert" THEN n.Colon
  ELSE IF n.kind = "ReferenceTypeExpression" THEN getFirstToken(n.Name)
  ELSE IF n.kind = "QualifiedName"
  THEN IF n.ModulePath # << >> THEN Head(n.ModulePath) ELSE n.Name
  ELSE IF n.kind = "LetBlockBody" THEN n.BlockStart
  ELSE IF n.kind = "LetExprBody" THEN n.Equals
  ELSE IF n.kind = "LetDeclaration"
  THEN IF n.PubKeyword # Null THEN n.PubKeyword ELSE n.LetKeyword
  ELSE Unreachable

(* The last token of a node that is not a token *)
RECURSIVE getLastToken(_)
getLastToken(n) ==
  IF IsToken(n) THEN TokenGetLastToken(n)
  ELSE IF n.kind = "SourceFile"
  THEN IF n.Elements = << >> THEN Null ELSE getLastToken(Last(n.Elements))
  ELSE IF n.kind = "ExpressionStatement" THEN getLastToken(n.Expression)
  ELSE IF n.kind = "ReferenceExpression" THEN n.Name
  ELSE IF n.kind = "ConstantExpression" THEN n.Token
  ELSE IF n.kind = "BindPattern" THEN n.Name
  ELSE IF n.kind = "Param"
  THEN IF n.TypeAssert # Null THEN getLastToken(n.TypeAssert) ELSE getLastToken(n.Pattern)
  ELSE IF n.kind = "TypeAssert" THEN getLastToken(n.TypeExpression)
  ELSE IF n.kind = "ReferenceTypeExpression" THEN getLastToken(n.Name)
  ELSE IF n.kind = "QualifiedName" THEN n.Name
  ELSE IF n.kind = "LetBlockBody"
  THEN IF n.Elements # << >> THEN getLastToken(Last(n.Elements)) ELSE n.BlockStart
  ELSE IF n.kind = "LetExprBody" THEN getLastToken(n.Expression)
  ELSE IF n.kind = "LetDeclaration"
  THEN IF n.Body # Null THEN getLastToken(n.Body)
       ELSE IF n.TypeAssert # Null THEN getLastToken(n.TypeAssert)
       ELSE IF n.Params # << >> THEN getLastToken(Last(n.Params))
       ELSE getLastToken(n.Pattern)
  ELSE Unreachable

(* The range of a node; dereferencing what is not a token has no defined result *)
NoRange == [Start |-> Null, End |-> Null]

TokenGetRange(tok) == [Start |-> getStartLoc(tok), End |-> getEndLoc(tok)]

getRange(n) ==
  IF IsToken(n) THEN TokenGetRange(n)
  ELSE IF IsToken(getFirstToken(n)) /\ IsToken(getLastToken(n))
  THEN [Start |-> getStartLoc(getFirstToken(n)), End |-> getEndLoc(getLastToken(n))]
  ELSE NoRange

getStartLine(n) ==
  IF IsToken(n) THEN n.line
  ELSE IF IsToken(getFirstToken(n)) THEN getFirstToken(n).line ELSE 0

getStartColumn(n) ==
  IF IsToken(n) THEN n.col
  ELSE IF IsToken(getFirstToken(n)) THEN getFirstToken(n).col ELSE 0

(* The children of a node, in source order; null and uninitialized fields hold none *)
Present(field) == IF field.kind \in {"Null", "Garbage"} THEN << >> ELSE << field >>

Children(n) ==
  IF IsToken(n) THEN << >>
  ELSE IF n.kind = "SourceFile" THEN n.Elements
  ELSE IF n.kind = "ExpressionStatement" THEN << n.Expression >>
  ELSE IF n.kind = "ReferenceExpression" THEN << n.Name >>
  ELSE IF n.kind = "ConstantExpression" THEN << n.Token >>
  ELSE IF n.kind = "BindPattern" THEN << n.Name >>
  ELSE IF n.kind = "Param" THEN << n.Pattern >> \o Present(n.TypeAssert)
  ELSE IF n.kind = "TypeAssert" THEN << n.Colon, n.TypeExpression >>
  ELSE IF n.kind = "ReferenceTypeExpression" THEN << n.Name >>
  ELSE IF n.kind = "QualifiedName" THEN n.ModulePath \o << n.Name >>
  ELSE IF n.kind = "LetBlockBody" THEN << n.BlockStart >> \o n.Elements
  ELSE IF n.kind = "LetExprBody" THEN << n.Equals, n.Expression >>
  ELSE IF n.kind = "LetDeclaration"
  THEN Present(n.PubKeyword) \o << n.LetKeyword >> \o Present(n.MutKeyword)
         \o << n.Pattern >> \o n.Params \o Present(n.TypeAssert) \o Present(n.Body)
  ELSE << >>

RECURSIVE Nodes(_)
Nodes(n) == {n} \cup UNION { Nodes(c) : c \in Range(Children(n)) }

(* Node::Parent of every node of a tree as its constructors leave it *)
NoParents(root) == [n \in Nodes(root) |-> Null]

(* The assignments Child->Parent = Node made while visiting the tree under n *)
RECURSIVE ParentLinks(_)
ParentLinks(n) ==
  UNION { { [child |-> c, parent |-> n] } \cup ParentLinks(c) : c \in Range(Children(n)) }

(* setParents that stops at the children of the root *)
setParentsOfChildrenOnly(root) ==
  [n \in Nodes(root) |-> IF n \in Range(Children(root)) THEN root ELSE Null]

(* Node::setParents on the root: Parent of every node afterwards *)
setParents(root) ==
  [n \in Nodes(root) |->
     IF \E l \in ParentLinks(root) : l.child = n
     THEN (CHOOSE l \in ParentLinks(root) : l.child = n).parent
     ELSE Null]

(* A let declaration built from a PubKeyword or MutKeyword pointer that was *)
(* never initialized: visiting its children dereferences that pointer       *)
HoldsGarbage(root) ==
  \E n \in Nodes(root) :
    n.kind = "LetDeclaration" /\ (n.PubKeyword = Garbage \/ n.MutKeyword = Garbage)

(***************************************************************************)
(* Scopes and the checker, sections 4.G and 4.I of the specification.      *)
(***************************************************************************)
getIntType == [con |-> << "I", "n", "t" >>]

getStringType == [con |-> << "S", "t", "r", "i", "n", "g" >>]

TypeVar(node) == [var |-> node]

(* The names a list of elements declares: the let declarations among them *)
DeclaredNames(Elements) ==
  { e.Pattern.Name.text : e \in { x \in Range(Elements) : x.kind = "LetDeclaration" } }

(* The scope of a let declaration: its parameters and what its body declares *)
LetScopeNames(D) ==
  { P.Pattern.Name.text : P \in Range(D.Params) }
    \cup (IF D.Body.kind = "LetBlockBody" THEN DeclaredNames(D.Body.Elements) ELSE {})

(* Type of an expression: literals have their built-in type *)
InferType(E) ==
  IF E.kind = "ConstantExpression"
  THEN IF E.Token.kind = "IntegerLiteral" THEN getIntType ELSE getStringType
  ELSE TypeVar(E)

BindingNotFound(Ref) ==
  [code |-> 2010, kind |-> "BindingNotFound", node |-> Ref, left |-> Null, right |-> Null]

UnificationError(Left, Right, N) ==
  [code |-> 2014, kind |-> "UnificationError", node |-> N, left |-> Left, right |-> Right]

(* A declared type against the type of the body *)
SignatureDiagnostics(D) ==
  IF D.TypeAssert # Null /\ D.Body.kind = "LetExprBody"
  THEN LET Declared == [con |-> D.TypeAssert.TypeExpression.Name.Name.text]
           Inferred == InferType(D.Body.Expression)
       IN  IF "con" \in DOMAIN Inferred /\ Inferred # Declared
           THEN { UnificationError(Declared, Inferred, D.Body.Expression) }
           ELSE {}
  ELSE {}

(* The diagnostics of a node whose enclosing scopes declare the names in visible *)
RECURSIVE Infer(_, _)
Infer(n, visible) ==
  IF n.kind = "ExpressionStatement" THEN Infer(n.Expression, visible)
  ELSE IF n.kind = "ReferenceExpression"
  THEN IF n.Name.text \in visible THEN {} ELSE { BindingNotFound(n) }
  ELSE IF n.kind = "LetDeclaration"
  THEN SignatureDiagnostics(n)
         \cup (IF n.Body.kind = "LetBlockBody"
               THEN UNION { Infer(e, visible \cup LetScopeNames(n)) : e \in Range(n.Body.Elements) }
               ELSE IF n.Body.kind = "LetExprBody"
               THEN Infer(n.Body.Expression, visible \cup LetScopeNames(n))
               ELSE {})
  ELSE {}

CheckDiagnostics(SF) ==
  UNION { Infer(e, DeclaredNames(SF.Elements)) : e \in Range(SF.Elements) }

ExpressionKinds == {"ReferenceExpression", "ConstantExpression"}

CheckTypes(SF) ==
  [ E \in { n \in Nodes(SF) : n.kind \in ExpressionKinds } |-> InferType(E) ]

(* The orders in which a set of diagnostics can be stored *)
Orderings(S) ==
  { f \in [1..Cardinality(S) -> S] : \A i, j \in 1..Cardinality(S) : f[i] = f[j] => i = j }

(***************************************************************************)
(* The driver, src/src/main.cc.                                            *)
(***************************************************************************)
(* The comparison handed to std::sort *)
LT(L, R) ==
  LET N1 == L.node
      N2 == R.node
  IN  IF N1 = Null /\ N2 = Null THEN FALSE
      ELSE IF N1 = Null THEN TRUE
      ELSE IF N2 = Null THEN FALSE
      ELSE getStartLine(N1) < getStartLine(N2) \/ getStartColumn(N1) < getStartColumn(N2)

(* std::sort requires its comparison to be a strict weak ordering *)
IsStrictWeakOrdering(S) ==
  /\ \A a \in S : ~LT(a, a)
  /\ \A a, b, c \in S : LT(a, b) /\ LT(b, c) => LT(a, c)
  /\ \A a, b, c \in S :
       (~LT(a, b) /\ ~LT(b, a)) /\ (~LT(b, c) /\ ~LT(c, b)) => (~LT(a, c) /\ ~LT(c, a))

(* What std::sort can leave in the vector: a sorted arrangement when the    *)
(* comparison is a strict weak ordering of the elements, any arrangement   *)
(* otherwise (undefined behaviour)                                         *)
SortOutcomes(D) ==
  IF IsStrictWeakOrdering(Range(D))
  THEN { p \in Orderings(Range(D)) : \A i, j \in 1..Len(p) : i < j => ~LT(p[j], p[i]) }
  ELSE Orderings(Range(D))

(***************************************************************************)
(* State.                                                                  *)
(***************************************************************************)
VARIABLES
  argc,        \* number of command-line arguments, the program name included
  readable,    \* whether the file named on the command line can be read
  text,        \* the content of that file: its lines
  pc,          \* where main is
  raw,         \* the raw tokens of the scanner (without the final EndOfFile)
  punct,       \* state of the Punctuator
  out,         \* the tokens read from the Punctuator so far
  lineStarts,  \* raw indices the filter treated as the start of a logical line
  openAtEof,   \* number of blocks open when the raw stream was exhausted, -1 before
  outAtEof,    \* number of tokens read before the raw stream was exhausted, -1 before
  SF,          \* the SourceFile returned by parseSourceFile, Null before
  thrown,      \* the exception that left parseSourceFile, Null if none
  Parent,      \* Node::Parent of every node of the tree under SF
  types,       \* the types the checker recorded on expression nodes
  Diagnostics, \* DS.Diagnostics
  printed,     \* the diagnostics handed to the printer, in order
  exitStatus,  \* exit status of the process, -1 while it runs or if it was aborted
  Edges,       \* IPRGraph::Edges
  aborted,     \* the ZEN_UNREACHABLE or ZEN_ASSERT that ended populate, Null if none
  TypeA,       \* the first type handed to unify
  TypeB,       \* the second type handed to unify
  Solution,    \* the substitution: union-find parents and ranks of the variables
  unified,     \* the calls of unify made so far: [ok, diagnostics, before, after]
  ExprOperators, \* Parser::ExprOperators, the Mapping of the operator table
  Tokens,      \* the tokens of the expression handed to the parser
  minPrec,     \* the minimal precedence the expression is parsed at
  parsed,      \* what parsing the expression gave, Null before
  locStart,    \* the TextLoc a text is added to, as it was made
  locNow,      \* that TextLoc object now
  locText,     \* the bytes added to it
  locSum,      \* what operator+ returned, Null before
  RefCount,    \* Node::RefCount of a node
  destroyed,   \* how many times the node was deleted
  refCalls,    \* calls of ref() on the node
  unrefCalls,  \* calls of unref() on the node
  danglingCalls, \* calls of ref() and unref() made on the node after it was deleted
  nodeKind,    \* Node::Kind of a node
  isExpression \* what is<Expression>() returned for it, Null before

vars == << argc, readable, text, pc, raw, punct, out, lineStarts, openAtEof, outAtEof,
           SF, thrown, Parent, types, Diagnostics, printed, exitStatus, Edges, aborted,
           TypeA, TypeB, Solution, unified, ExprOperators, Tokens, minPrec, parsed,
           locStart, locNow, locText, locSum, RefCount, destroyed, refCalls, unrefCalls,
           danglingCalls,
           nodeKind, isExpression >>

lexVars == << raw, punct, out, lineStarts, openAtEof, outAtEof >>

checkVars == << SF, thrown, Parent, types, Diagnostics, printed >>

graphVars == << Edges, aborted >>

unifyVars == << TypeA, TypeB, Solution, unified >>

exprVars == << ExprOperators, Tokens, minPrec, parsed >>

(* State of what main.cc does not call *)
locVars == << locStart, locNow, locText, locSum >>

refVars == << RefCount, destroyed, refCalls, unrefCalls, danglingCalls >>

kindVars == << nodeKind, isExpression >>

nodeVars == << locVars, refVars, kindVars >>

libVars == << graphVars, unifyVars, exprVars, nodeVars >>

(* No TextLoc, reference count or kind is looked at *)
LocIdle == locStart = Null /\ locNow = Null /\ locText = << >> /\ locSum = Null

RefIdle ==
  RefCount = 1 /\ destroyed = 0 /\ refCalls = 0 /\ unrefCalls = 0 /\ danglingCalls = 0

KindIdle == nodeKind = Null /\ isExpression = Null

NodeIdle == LocIdle /\ RefIdle /\ KindIdle

(* The variables of the run of main.cc *)
mainVars == << argc, readable, text, exitStatus, lexVars, checkVars >>

(***************************************************************************)
(* Scopes: Scope of src/include/bolt/CST.hpp, section 4.G.                 *)
(* A scope is identified by the node that owns it.                         *)
(***************************************************************************)
SymbolKinds == {"Var", "Class", "Type"}

SymbolPath(Modules, Name) == [Modules |-> Modules, Name |-> Name]

getSymbolPath(tok) == SymbolPath(<< >>, tok.text)

(* The node classes that override getScope *)
ScopeOwnerKinds == {"SourceFile", "LetDeclaration"}

(* Scope::visitPattern: the names a pattern binds, entered for ToInsert *)
visitPattern(P, ToInsert) ==
  IF P.kind = "BindPattern"
  THEN { [name |-> P.Name.text, decl |-> ToInsert, kind |-> "Var"] }
  ELSE {}

(* Scope::scan over a list of elements: the declarations among them *)
ScanElements(Elements) ==
  UNION { IF e.kind = "LetDeclaration" THEN visitPattern(e.Pattern, e) ELSE {} :
            e \in Range(Elements) }

(* Scope::Mapping of the scope that Source owns *)
Mapping(Source) ==
  IF Source.kind = "SourceFile" THEN ScanElements(Source.Elements)
  ELSE IF Source.kind = "LetDeclaration"
  THEN UNION { visitPattern(P.Pattern, P) : P \in Range(Source.Params) }
         \cup (IF Source.Body.kind = "LetBlockBody"
               THEN ScanElements(Source.Body.Elements) ELSE {})
  ELSE {}

(* Node::getScope: the scope of the nearest node that owns one *)
RECURSIVE getScope(_)
getScope(n) ==
  IF n.kind \in ScopeOwnerKinds THEN n
  ELSE IF Parent[n] = Null THEN Null
  ELSE getScope(Parent[n])

getParentScope(S) == IF Parent[S] = Null THEN Null ELSE getScope(Parent[S])

DirectMatches(S, Path, Kind) ==
  { m.decl : m \in { e \in Mapping(S) : e.name = Path.Name /\ e.kind = Kind } }

(* lookupDirect that falls back on the enclosing scope *)
lookupDirectOrEnclosing(S, Path, Kind) ==
  IF DirectMatches(S, Path, Kind) # {}
  THEN CHOOSE d \in DirectMatches(S, Path, Kind) : TRUE
  ELSE IF getParentScope(S) # Null /\ DirectMatches(getParentScope(S), Path, Kind) # {}
  THEN CHOOSE d \in DirectMatches(getParentScope(S), Path, Kind) : TRUE
  ELSE Null

(* Scope::lookupDirect *)
lookupDirect(S, Path, Kind) ==
  IF DirectMatches(S, Path, Kind) # {}
  THEN CHOOSE d \in DirectMatches(S, Path, Kind) : TRUE
  ELSE Null

(* lookup that prefers the outermost declaration *)
RECURSIVE lookupOutermost(_, _, _)
lookupOutermost(S, Path, Kind) ==
  IF getParentScope(S) # Null /\ lookupOutermost(getParentScope(S), Path, Kind) # Null
  THEN lookupOutermost(getParentScope(S), Path, Kind)
  ELSE lookupDirect(S, Path, Kind)

(* Scope::lookup *)
RECURSIVE lookup(_, _, _)
lookup(S, Path, Kind) ==
  IF lookupDirect(S, Path, Kind) # Null THEN lookupDirect(S, Path, Kind)
  ELSE IF getParentScope(S) = Null THEN Null
  ELSE lookup(getParentScope(S), Path, Kind)

(***************************************************************************)
(* The dependency graph, src/src/IPRGraph.cc.                              *)
(* A graph in the making is [Edges, aborted].                              *)
(***************************************************************************)
Edge(From, To) == [from |-> From, to |-> To]

Abort(G, by, at) == [G EXCEPT !.aborted = [by |-> by, at |-> at]]

RECURSIVE populate(_, _, _)
RECURSIVE populateEach(_, _, _)
RECURSIVE populateParts(_, _, _)

(* for (auto Element: Elements) populate(Element, Decl) *)
populateEach(Elements, Decl, G) ==
  IF Elements = << >> THEN G
  ELSE populateEach(Tail(Elements), Decl, populate(Head(Elements), Decl, G))

(* for (auto Part: Y->Parts) for (auto Element: Part->Elements) ... *)
populateParts(Parts, Decl, G) ==
  IF Parts = << >> THEN G
  ELSE populateParts(Tail(Parts), Decl, populateEach(Head(Parts).Elements, Decl, G))

(* The edges a reference Y adds once it has resolved to Def *)
ReferenceEdges(Y, Decl, Def) ==
  (IF Decl # Null THEN { Edge(Decl, Y) } ELSE {}) \cup { Edge(Y, Def) }

(* IPRGraph::populate(X, Decl); nothing more happens once it has aborted *)
populate(X, Decl, G) ==
  IF G.aborted # Null THEN G
  ELSE IF X.kind = "SourceFile" THEN populateEach(X.Elements, Decl, G)
  ELSE IF X.kind = "IfStatement" THEN populateParts(X.Parts, Decl, G)
  ELSE IF X.kind = "LetDeclaration"
  THEN IF X.Body = Null THEN G
       ELSE IF X.Body.kind = "LetBlockBody" THEN populateEach(X.Body.Elements, X, G)
       ELSE IF X.Body.kind = "LetExprBody" THEN populate(X.Body.Expression, X, G)
       ELSE Abort(G, "ZEN_UNREACHABLE", X.Body)
  ELSE IF X.kind = "ConstantExpression" THEN G
  ELSE IF X.kind = "CallExpression"
  THEN populateEach(<< X.Function >> \o X.Args, Decl, G)
  ELSE IF X.kind = "ReferenceExpression"
  THEN IF lookup(getScope(X), getSymbolPath(X.Name), "Var") = Null
       THEN Abort(G, "ZEN_ASSERT", X)
       ELSE [G EXCEPT !.Edges = @ \cup
               ReferenceEdges(X, Decl, lookup(getScope(X), getSymbolPath(X.Name), "Var"))]
  ELSE Abort(G, "ZEN_UNREACHABLE", X)

Init ==
  /\ argc \in {1, 2}
  /\ readable \in BOOLEAN
  /\ text \in SourceTexts
  /\ (argc = 1 \/ ~readable) => text = << >>
  /\ pc = "main"
  /\ raw = << >>
  /\ punct = PunctuatorInit
  /\ out = << >>
  /\ lineStarts = {}
  /\ openAtEof = -1
  /\ outAtEof = -1
  /\ SF = Null
  /\ thrown = Null
  /\ Parent = << >>
  /\ types = << >>
  /\ Diagnostics = << >>
  /\ printed = << >>
  /\ exitStatus = -1
  /\ Edges = {}
  /\ aborted = Null
  /\ TypeA = Null
  /\ TypeB = Null
  /\ Solution = Null
  /\ unified = << >>
  /\ ExprOperators = << >>
  /\ Tokens = << >>
  /\ minPrec = 0
  /\ parsed = Null
  /\ NodeIdle

EofReads == Cardinality({i \in 1..Len(out) : out[i].kind = "EndOfFile"})

(* main, the argument check *)
CheckArguments ==
  /\ pc = "main"
  /\ IF argc < 2
     THEN pc' = "exited" /\ exitStatus' = 1
     ELSE pc' = "readFile" /\ exitStatus' = exitStatus
  /\ UNCHANGED << argc, readable, text >>
  /\ UNCHANGED lexVars
  /\ UNCHANGED checkVars
  /\ UNCHANGED libVars

(* readFile never tests whether the stream opened: on a stream that did not, *)
(* tellg() is -1 and reserve() either throws, which nothing catches, or the  *)
(* text stays empty                                                         *)
ReadFileOutcomes == IF readable THEN {"read"} ELSE {"terminated", "empty"}

ReadFile ==
  /\ pc = "readFile"
  /\ \E outcome \in ReadFileOutcomes :
       /\ pc' = IF outcome = "terminated" THEN "terminated" ELSE "parse"
       /\ raw' = IF outcome = "read" THEN Scan(text, 1) ELSE << >>
  /\ UNCHANGED << argc, readable, text, punct, out, lineStarts, openAtEof, outAtEof, exitStatus >>
  /\ UNCHANGED checkVars
  /\ UNCHANGED libVars

(* Stream<Token*>::get on the Punctuator, one token per step *)
Read ==
  /\ pc = "parse"
  /\ EofReads <= MaxExtraReads
  /\ LET r == PunctuatorRead(raw, punct)
     IN  /\ punct' = r.next
         /\ out' = Append(out, r.token)
         /\ lineStarts' = IF r.starts THEN lineStarts \cup {punct.rpos} ELSE lineStarts
         /\ openAtEof' = IF r.flushing THEN Len(punct.stack) ELSE openAtEof
         /\ outAtEof' = IF r.flushing THEN Len(out) ELSE outAtEof
  /\ UNCHANGED << argc, readable, text, pc, raw, exitStatus >>
  /\ UNCHANGED checkVars
  /\ UNCHANGED libVars

(* The filtered stream up to its first EndOfFile *)
FirstEof == CHOOSE i \in 1..Len(out) :
              out[i].kind = "EndOfFile" /\ \A j \in 1..(i - 1) : out[j].kind # "EndOfFile"

Filtered == SubSeq(out, 1, FirstEof)

(* P.parseSourceFile(): an exception that leaves it is caught nowhere *)
Parse ==
  /\ pc = "parse"
  /\ EofReads >= 1
  /\ \E uninit \in UninitializedPointers :
       \E R \in { parseSourceFile(Filtered, uninit) } :
         IF R.ok
         THEN SF' = R.node /\ thrown' = Null /\ Parent' = NoParents(R.node)
              /\ pc' = "setParents"
         ELSE SF' = Null /\ thrown' = R /\ Parent' = Parent /\ pc' = "terminated"
  /\ UNCHANGED << argc, readable, text, exitStatus, types, Diagnostics, printed >>
  /\ UNCHANGED lexVars
  /\ UNCHANGED libVars

(* What SF->setParents() can do: it returns, or it dies on a pointer that  *)
(* was never initialized                                                   *)
SetParentsOutcomes == IF HoldsGarbage(SF) THEN {"returned", "terminated"} ELSE {"returned"}

(* if (SF == nullptr) return 1; SF->setParents() *)
SetParents ==
  /\ pc = "setParents"
  /\ IF SF = Null
     THEN pc' = "exited" /\ exitStatus' = 1 /\ Parent' = Parent
     ELSE \E outcome \in SetParentsOutcomes :
            IF outcome = "returned"
            THEN pc' = "check" /\ exitStatus' = exitStatus /\ Parent' = setParents(SF)
            ELSE pc' = "terminated" /\ exitStatus' = exitStatus /\ Parent' = Parent
  /\ UNCHANGED << argc, readable, text, SF, thrown, types, Diagnostics, printed >>
  /\ UNCHANGED lexVars
  /\ UNCHANGED libVars

(* TheChecker.check(SF) *)
Check ==
  /\ pc = "check"
  /\ types' = CheckTypes(SF)
  /\ Diagnostics' \in Orderings(CheckDiagnostics(SF))
  /\ pc' = "sort"
  /\ UNCHANGED << argc, readable, text, exitStatus, SF, thrown, Parent, printed >>
  /\ UNCHANGED lexVars
  /\ UNCHANGED libVars

(* std::sort(DS.Diagnostics.begin(), DS.Diagnostics.end(), LT) *)
Sort ==
  /\ pc = "sort"
  /\ Diagnostics' \in SortOutcomes(Diagnostics)
  /\ pc' = "print"
  /\ UNCHANGED << argc, readable, text, exitStatus, SF, thrown, Parent, types, printed >>
  /\ UNCHANGED lexVars
  /\ UNCHANGED libVars

(* for (auto D: DS.Diagnostics) DE.addDiagnostic(D); return 0 *)
ExitStatusAtEnd == 0

PrintAndReturn ==
  /\ pc = "print"
  /\ printed' = Diagnostics
  /\ pc' = "exited"
  /\ exitStatus' = ExitStatusAtEnd
  /\ UNCHANGED << argc, readable, text, SF, thrown, Parent, types, Diagnostics >>
  /\ UNCHANGED lexVars
  /\ UNCHANGED libVars

Next ==
  \/ CheckArguments
  \/ ReadFile
  \/ Read
  \/ Parse
  \/ SetParents
  \/ Check
  \/ Sort
  \/ PrintAndReturn

Spec == Init /\ [][Next]_vars

(***************************************************************************)
(* Building the dependency graph of a parsed file.  IPRGraph::populate is  *)
(* called on a SourceFile whose parents are set, since it asks every       *)
(* reference for its scope.  The parser is given the stream its grammar    *)
(* is written for: a line indented deeper than the one before opens a      *)
(* block, every line ends in its own LineFoldEnd, and the line that holds  *)
(* a block ends in the LineFoldEnd that follows its BlockEnd.              *)
(***************************************************************************)
(* LineFoldEnd BlockEnd for every block that a line at T0 closes *)
ClosedBlocks(stack, T0) ==
  [i \in 1..(2 * Len(PopBlocks(stack, T0).tokens)) |->
     IF i % 2 = 1 THEN Synthetic("LineFoldEnd", T0) ELSE Synthetic("BlockEnd", T0)]

RECURSIVE ParserStream(_, _, _)
ParserStream(rawTokens, i, stack) ==
  IF i > Len(rawTokens)
  THEN (IF rawTokens = << >> THEN << >>
        ELSE ClosedBlocks(stack, [EndOfFileToken(rawTokens) EXCEPT !.col = 0])
               \o << Synthetic("LineFoldEnd", EndOfFileToken(rawTokens)) >>)
         \o << EndOfFileToken(rawTokens) >>
  ELSE IF ~IsLineStart(rawTokens, i)
  THEN << rawTokens[i] >> \o ParserStream(rawTokens, i + 1, stack)
  ELSE IF rawTokens[i].col > BlockColumn(stack)
  THEN << Synthetic("BlockStart", rawTokens[i]), rawTokens[i] >>
         \o ParserStream(rawTokens, i + 1, << rawTokens[i].col >> \o stack)
  ELSE ClosedBlocks(stack, rawTokens[i])
         \o << Synthetic("LineFoldEnd", rawTokens[i]), rawTokens[i] >>
         \o ParserStream(rawTokens, i + 1, PopBlocks(stack, rawTokens[i]).stack)

GraphInit ==
  /\ argc = 2
  /\ readable = TRUE
  /\ text \in GraphTexts
  /\ pc = "parse"
  /\ raw = Scan(text, 1)
  /\ punct = PunctuatorInit
  /\ out = ParserStream(raw, 1, << >>)
  /\ lineStarts = {}
  /\ openAtEof = -1
  /\ outAtEof = -1
  /\ SF = Null
  /\ thrown = Null
  /\ Parent = << >>
  /\ types = << >>
  /\ Diagnostics = << >>
  /\ printed = << >>
  /\ exitStatus = -1
  /\ Edges = {}
  /\ aborted = Null
  /\ TypeA = Null
  /\ TypeB = Null
  /\ Solution = Null
  /\ unified = << >>
  /\ ExprOperators = << >>
  /\ Tokens = << >>
  /\ minPrec = 0
  /\ parsed = Null
  /\ NodeIdle

(* IPRGraph::populate(SF, nullptr) on an empty graph *)
Populate ==
  /\ pc = "check"
  /\ \E G \in { populate(SF, Null, [Edges |-> Edges, aborted |-> Null]) } :
       /\ Edges' = G.Edges
       /\ aborted' = G.aborted
       /\ pc' = IF G.aborted = Null THEN "populated" ELSE "terminated"
  /\ UNCHANGED mainVars
  /\ UNCHANGED << unifyVars, exprVars, nodeVars >>

GraphNext ==
  \/ Parse
  \/ SetParents
  \/ Populate

GraphSpec == GraphInit /\ [][GraphNext]_vars

(***************************************************************************)
(* Types and their unification, sections 3 and 4.I of the specification.   *)
(* A type is a unification variable [var], a constructor [con] or an arrow *)
(* [params, result].  The substitution is a union-find over the variables, *)
(* with path compression and rank: parent[v] is Null for a representative  *)
(* that is not bound, another variable, or the type v is bound to.         *)
(***************************************************************************)
TypeVars == 1..MaxTypeVars

AtomicTypes == { TypeVar(v) : v \in TypeVars } \cup { getIntType, getStringType }

ArrowType(params, result) == [params |-> params, result |-> result]

Types == AtomicTypes \cup { ArrowType(<< p >>, r) : p, r \in AtomicTypes }

IsTypeVar(t) == "var" \in DOMAIN t

IsArrow(t) == "params" \in DOMAIN t

(* No variable is bound *)
Unbound == [parent |-> [v \in TypeVars |-> Null], rank |-> [v \in TypeVars |-> 0]]

(* The representative of a variable, or the type it is bound to *)
RECURSIVE find(_, _)
find(t, S) ==
  IF IsTypeVar(t) /\ S.parent[t.var] # Null THEN find(S.parent[t.var], S) ELSE t

(* Path compression: a variable that was followed points at what find gave *)
compress(t, S) ==
  IF IsTypeVar(t) /\ S.parent[t.var] # Null
  THEN [S EXCEPT !.parent[t.var] = find(t, S)]
  ELSE S

RECURSIVE occurs(_, _, _)
occursIn(v, r, S) ==
  IF IsTypeVar(r) THEN r.var = v
  ELSE IF IsArrow(r)
  THEN \/ \E i \in DOMAIN r.params : occurs(v, r.params[i], S)
       \/ occurs(v, r.result, S)
  ELSE FALSE

(* The occurs check: whether the variable v is in the type t *)
occurs(v, t, S) == occursIn(v, find(t, S), S)

OccursCheck(Var, Type) ==
  [code |-> 2015, kind |-> "OccursCheck", node |-> Null, left |-> Var, right |-> Type]

(* The state of a unification: whether it still holds, the substitution    *)
(* and the diagnostics it emitted.                                         *)
Unifying(S) == [ok |-> TRUE, S |-> S, diagnostics |-> << >>]

Failed(R, Diagnostic) ==
  [R EXCEPT !.ok = FALSE, !.diagnostics = Append(@, Diagnostic)]

(* Union by rank of two distinct representatives that are not bound *)
union(v, w, S) ==
  IF S.rank[v] < S.rank[w] THEN [S EXCEPT !.parent[v] = TypeVar(w)]
  ELSE IF S.rank[v] > S.rank[w] THEN [S EXCEPT !.parent[w] = TypeVar(v)]
  ELSE [S EXCEPT !.parent[v] = TypeVar(w), !.rank[w] = @ + 1]

(* Binding the representative v to the other representative or type t *)
bind(v, t, R) ==
  IF IsTypeVar(t) THEN [R EXCEPT !.S = union(v, t.var, @)]
  ELSE IF occurs(v, t, R.S) THEN Failed(R, OccursCheck(TypeVar(v), t))
  ELSE [R EXCEPT !.S.parent[v] = t]

RECURSIVE unify(_, _, _)
RECURSIVE unifyEach(_, _, _)
unifyEach(As, Bs, R) ==
  IF As = << >> THEN R
  ELSE unifyEach(Tail(As), Tail(Bs), unify(Head(As), Head(Bs), R))

(* A unification that binds a variable only when it is the first argument *)
unifyRootsLeftOnly(a, b, R) ==
  IF a = b THEN R
  ELSE IF IsTypeVar(a) THEN bind(a.var, b, R)
  ELSE IF IsArrow(a) /\ IsArrow(b) /\ Len(a.params) = Len(b.params)
  THEN unify(a.result, b.result, unifyEach(a.params, b.params, R))
  ELSE Failed(R, UnificationError(a, b, Null))

(* Structural unification of what find gave for the two types *)
unifyRoots(a, b, R) ==
  IF a = b THEN R
  ELSE IF IsTypeVar(a) THEN bind(a.var, b, R)
  ELSE IF IsTypeVar(b) THEN bind(b.var, a, R)
  ELSE IF IsArrow(a) /\ IsArrow(b) /\ Len(a.params) = Len(b.params)
  THEN unify(a.result, b.result, unifyEach(a.params, b.params, R))
  ELSE Failed(R, UnificationError(a, b, Null))

(* unify(a, b): nothing more is unified once a failure was reported *)
unify(a, b, R) ==
  IF ~R.ok THEN R
  ELSE unifyRoots(find(a, R.S), find(b, R.S),
                  [R EXCEPT !.S = compress(b, compress(a, @))])

(* The substitutions an earlier unification of two atomic types leaves *)
PriorSolutions == { unify(c, d, Unifying(Unbound)).S : c, d \in AtomicTypes }

(* main is not running *)
MainIdle ==
  /\ argc = 2
  /\ readable = TRUE
  /\ text = << >>
  /\ raw = << >>
  /\ punct = PunctuatorInit
  /\ out = << >>
  /\ lineStarts = {}
  /\ openAtEof = -1
  /\ outAtEof = -1
  /\ SF = Null
  /\ thrown = Null
  /\ Parent = << >>
  /\ types = << >>
  /\ Diagnostics = << >>
  /\ printed = << >>
  /\ exitStatus = -1

UnifyInit ==
  /\ MainIdle
  /\ pc = "unify"
  /\ Edges = {}
  /\ aborted = Null
  /\ TypeA \in Types
  /\ TypeB \in Types
  /\ Solution \in PriorSolutions
  /\ unified = << >>
  /\ ExprOperators = << >>
  /\ Tokens = << >>
  /\ minPrec = 0
  /\ parsed = Null
  /\ NodeIdle

(* One call of unify on the current substitution *)
Unified(a, b) ==
  \E R \in { unify(a, b, Unifying(Solution)) } :
    /\ Solution' = R.S
    /\ unified' = Append(unified, [ok |-> R.ok, diagnostics |-> R.diagnostics,
                                   before |-> Solution, after |-> R.S])

(* unify(TypeA, TypeB) *)
Unify ==
  /\ pc = "unify"
  /\ Unified(TypeA, TypeB)
  /\ pc' = "unify swapped"
  /\ UNCHANGED << TypeA, TypeB >>
  /\ UNCHANGED mainVars
  /\ UNCHANGED << graphVars, exprVars, nodeVars >>

(* unify(TypeB, TypeA) after unify(TypeA, TypeB) *)
UnifySwapped ==
  /\ pc = "unify swapped"
  /\ Unified(TypeB, TypeA)
  /\ pc' = "unified"
  /\ UNCHANGED << TypeA, TypeB >>
  /\ UNCHANGED mainVars
  /\ UNCHANGED << graphVars, exprVars, nodeVars >>

UnifyNext ==
  \/ Unify
  \/ UnifySwapped

UnifySpec == UnifyInit /\ [][UnifyNext]_vars

(***************************************************************************)
(* Operators and expressions: OperatorInfo and OperatorTable of            *)
(* src/include/bolt/Parser.hpp, and precedence climbing, section 4.F.      *)
(***************************************************************************)
OperatorFlags_Prefix == 1

OperatorFlags_Suffix == 2

OperatorFlags_InfixL == 4

OperatorFlags_InfixR == 8

(* Bit i of an unsigned n *)
Bit(n, i) == (n \div (2 ^ i)) % 2

(* a & b and a | b on the four bits that OperatorFlags uses *)
BitAnd(a, b) ==
  Bit(a, 0) * Bit(b, 0) + 2 * Bit(a, 1) * Bit(b, 1)
    + 4 * Bit(a, 2) * Bit(b, 2) + 8 * Bit(a, 3) * Bit(b, 3)

BitOr(a, b) == a + b - BitAnd(a, b)

OperatorInfo(Precedence, Flags) == [Precedence |-> Precedence, Flags |-> Flags]

isPrefix(Info) == BitAnd(Info.Flags, OperatorFlags_Prefix) # 0

isSuffix(Info) == BitAnd(Info.Flags, OperatorFlags_Suffix) # 0

isInfix(Info) == BitAnd(Info.Flags, BitOr(OperatorFlags_InfixL, OperatorFlags_InfixR)) # 0

isRightAssoc(Info) == BitAnd(Info.Flags, OperatorFlags_InfixR) # 0

(* OperatorTable::getInfix: the entry of the token's text if it is infix *)
getInfix(Table, T) ==
  IF T.text \in DOMAIN Table /\ Table[T.text] # Null /\ isInfix(Table[T.text])
  THEN Table[T.text]
  ELSE Null

InfixExpression(LHS, Operator, RHS) ==
  [kind |-> "InfixExpression", LHS |-> LHS, Operator |-> Operator, RHS |-> RHS]

(* An operator that never lets its right operand take an equal operator *)
nextMinOfLeftAssoc(Info) == Info.Precedence + 1

(* The precedence the right operand of an operator is parsed at *)
nextMin(Info) == IF isRightAssoc(Info) THEN Info.Precedence ELSE Info.Precedence + 1

(* The loop of precedence climbing, and the expression it is the tail of.  *)
(* An operand is one identifier or literal.                                *)
RECURSIVE parseInfixOperatorAfterExpression(_, _, _, _, _)
RECURSIVE parseExpressionAbove(_, _, _, _)
parseInfixOperatorAfterExpression(toks, i, Table, LHS, MinPrecedence) ==
  LET AfterOperand(Op, RHS) ==
        IF ~RHS.ok THEN RHS
        ELSE parseInfixOperatorAfterExpression(
               toks, RHS.pos, Table, InfixExpression(LHS, Op, RHS.node), MinPrecedence)
      AfterPeek(Op, Info) ==
        IF Info = Null THEN Ok(LHS, i)
        ELSE IF Info.Precedence < MinPrecedence THEN Ok(LHS, i)
        ELSE AfterOperand(Op, parseExpressionAbove(toks, i + 1, Table, nextMin(Info)))
  IN  AfterPeek(Tok(toks, i), getInfix(Table, Tok(toks, i)))

parseExpressionAbove(toks, i, Table, MinPrecedence) ==
  LET AfterPrefix(E) ==
        IF ~E.ok THEN E
        ELSE parseInfixOperatorAfterExpression(toks, E.pos, Table, E.node, MinPrecedence)
  IN  AfterPrefix(parseExpression(toks, i))

(* The operators an expression is written with, and what a table says of them *)
OperatorTexts == { << "+" >>, << "*" >> }

OperatorInfos ==
  { OperatorInfo(p, f) :
      p \in 1..MaxPrecedence,
      f \in { OperatorFlags_Prefix, OperatorFlags_InfixL, OperatorFlags_InfixR,
               BitOr(OperatorFlags_Prefix, OperatorFlags_InfixL) } }

(* x op x op ... x and the LineFoldEnd of its line *)
ExpressionTokens(ops) ==
  [k \in 1..(2 * Len(ops) + 2) |->
     IF k = 2 * Len(ops) + 2 THEN Token("LineFoldEnd", << >>, 1, k)
     ELSE IF k % 2 = 1 THEN Token("Identifier", << "x" >>, 1, k)
     ELSE Token("CustomOperator", ops[k \div 2], 1, k)]

ExprInit ==
  /\ MainIdle
  /\ pc = "expression"
  /\ Edges = {}
  /\ aborted = Null
  /\ TypeA = Null
  /\ TypeB = Null
  /\ Solution = Null
  /\ unified = << >>
  /\ ExprOperators \in [OperatorTexts -> OperatorInfos \cup {Null}]
  /\ \E n \in 1..MaxOperators : \E ops \in [1..n -> OperatorTexts] :
       Tokens = ExpressionTokens(ops)
  /\ minPrec \in 0..MaxPrecedence
  /\ parsed = Null
  /\ NodeIdle

(* Parsing the expression at minPrec *)
ParseExpression ==
  /\ pc = "expression"
  /\ parsed' = parseExpressionAbove(Tokens, 1, ExprOperators, minPrec)
  /\ pc' = "parsed"
  /\ UNCHANGED << ExprOperators, Tokens, minPrec >>
  /\ UNCHANGED mainVars
  /\ UNCHANGED << graphVars, unifyVars, nodeVars >>

ExprNext == ParseExpression

ExprSpec == ExprInit /\ [][ExprNext]_vars

(***************************************************************************)
(* The functions of src/src/Parser.cc on token streams of their own: a     *)
(* stream is finitely many tokens and then EndOfFile for ever, the k-th    *)
(* token standing at column k of line 1.                                   *)
(***************************************************************************)
ParserKinds ==
  { "PubKeyword", "LetKeyword", "MutKeyword", "Identifier", "Colon", "Equals", "Dot",
    "IntegerLiteral", "BlockStart", "BlockEnd", "LineFoldEnd" }

KindText(kind) ==
  IF kind = "Identifier" THEN << "a" >>
  ELSE IF kind = "IntegerLiteral" THEN << "1" >>
  ELSE IF kind = "LetKeyword" THEN LetText
  ELSE IF kind = "PubKeyword" THEN PubText
  ELSE IF kind = "MutKeyword" THEN MutText
  ELSE IF kind = "Colon" THEN << ":" >>
  ELSE IF kind = "Equals" THEN << "=" >>
  ELSE IF kind = "Dot" THEN << "." >>
  ELSE << >>

TokenStream(kinds) ==
  [k \in 1..(Len(kinds) + 1) |->
     IF k <= Len(kinds) THEN Token(kinds[k], KindText(kinds[k]), 1, k)
     ELSE Token("EndOfFile", << >>, 1, k)]

Optional(s) == { << >>, s }

(* pub? let mut? pattern param* (: type)? body? LineFoldEnd *)
LetForms ==
  { pub \o << "LetKeyword" >> \o mut \o << "Identifier" >> \o params \o ty \o body
      \o << "LineFoldEnd" >> :
      pub \in Optional(<< "PubKeyword" >>),
      mut \in Optional(<< "MutKeyword" >>),
      params \in { [i \in 1..n |-> "Identifier"] : n \in 0..MaxParams },
      ty \in { << >>, << "Colon", "Identifier" >>,
               << "Colon", "Identifier", "Dot", "Identifier" >> },
      body \in { << >>, << "Equals", "IntegerLiteral" >>, << "BlockStart", "BlockEnd" >>,
                 << "BlockStart", "IntegerLiteral", "LineFoldEnd", "BlockEnd" >> } }

(* The let declarations, each of them with any one token replaced, and    *)
(* every stream of up to MaxTokens tokens                                  *)
ParserStreams ==
  { TokenStream(kinds) :
      kinds \in LetForms
        \cup UNION { { [f EXCEPT ![p] = k] : p \in DOMAIN f, k \in ParserKinds } :
                      f \in LetForms }
        \cup UNION { [1..n -> ParserKinds] : n \in 0..MaxTokens } }

ParserInit ==
  /\ MainIdle
  /\ pc \in { "parseQualifiedName", "parseLetDeclaration", "parseSourceFile" }
  /\ Edges = {}
  /\ aborted = Null
  /\ TypeA = Null
  /\ TypeB = Null
  /\ Solution = Null
  /\ unified = << >>
  /\ ExprOperators = << >>
  /\ Tokens \in ParserStreams
  /\ minPrec = 0
  /\ parsed = Null
  /\ NodeIdle

(* What every call of a parsing function leaves alone *)
ParserCalled ==
  /\ UNCHANGED << ExprOperators, Tokens, minPrec >>
  /\ UNCHANGED mainVars
  /\ UNCHANGED << graphVars, unifyVars, nodeVars >>

ParseQualifiedName ==
  /\ pc = "parseQualifiedName"
  /\ parsed' = parseQualifiedName(Tokens, 1)
  /\ pc' = "parsedQualifiedName"
  /\ ParserCalled

ParseLetDeclaration ==
  /\ pc = "parseLetDeclaration"
  /\ \E uninit \in UninitializedPointers : parsed' = parseLetDeclaration(Tokens, 1, uninit)
  /\ pc' = "parsedLetDeclaration"
  /\ ParserCalled

ParseSourceFile ==
  /\ pc = "parseSourceFile"
  /\ \E uninit \in UninitializedPointers : parsed' = parseSourceFile(Tokens, uninit)
  /\ pc' = "parsedSourceFile"
  /\ ParserCalled

ParserNext ==
  \/ ParseQualifiedName
  \/ ParseLetDeclaration
  \/ ParseSourceFile

ParserSpec == ParserInit /\ [][ParserNext]_vars

(***************************************************************************)
(* TextLoc of src/include/bolt/CST.hpp: advance changes the object it is   *)
(* called on, operator+ works on a copy.                                   *)
(***************************************************************************)
GraphIdle == Edges = {} /\ aborted = Null

UnifyIdle == TypeA = Null /\ TypeB = Null /\ Solution = Null /\ unified = << >>

ExprIdle == ExprOperators = << >> /\ Tokens = << >> /\ minPrec = 0 /\ parsed = Null

Bytes == { "a", "\n" }

ByteStrings == UNION { [1..n -> Bytes] : n \in 0..MaxTextLen }

(* TextLoc::empty() and the locations of a small file *)
TextLocs == { TextLoc(0, 0) } \cup { TextLoc(l, c) : l \in 1..MaxLines, c \in 1..MaxCol }

LocInit ==
  /\ MainIdle
  /\ GraphIdle
  /\ UnifyIdle
  /\ ExprIdle
  /\ RefIdle
  /\ KindIdle
  /\ pc \in { "advance", "operator+" }
  /\ locStart \in TextLocs
  /\ locNow = locStart
  /\ locText \in ByteStrings
  /\ locSum = Null

(* Loc.advance(Text) *)
Advance ==
  /\ pc = "advance"
  /\ locNow' = advance(locNow, locText)
  /\ pc' = "advanced"
  /\ UNCHANGED << locStart, locText, locSum >>
  /\ UNCHANGED mainVars
  /\ UNCHANGED << graphVars, unifyVars, exprVars, refVars, kindVars >>

(* Loc + Text *)
Plus ==
  /\ pc = "operator+"
  /\ locSum' = TextLocPlus(locNow, locText)
  /\ pc' = "added"
  /\ UNCHANGED << locStart, locNow, locText >>
  /\ UNCHANGED mainVars
  /\ UNCHANGED << graphVars, unifyVars, exprVars, refVars, kindVars >>

LocNext ==
  \/ Advance
  \/ Plus

LocSpec == LocInit /\ [][LocNext]_vars

(***************************************************************************)
(* Reference counts of nodes, Node::ref and Node::unref of CST.hpp.        *)
(* RefCount holds the 32 bits of the unsigned counter read as a number in  *)
(* two's complement: -1 stands for 2^32 - 1, the value the counter has     *)
(* after it was decremented at 0. Incrementing, decrementing and the test   *)
(* against 0 are the same on both readings.                                *)
(* A call on a node that was deleted reads and writes freed memory: the    *)
(* counter it finds is the one left there, or what the allocator has put   *)
(* in its place since.                                                     *)
(***************************************************************************)
ref(count) == count + 1

(* An unref that compares before it decrements: if (RefCount-- == 0) *)
unrefComparingFirst(count) == [RefCount |-> count - 1, deleted |-> count = 0]

unref(count) == [RefCount |-> count - 1, deleted |-> count - 1 = 0]

(* What a call finds for the counter: RefCount while the node lives; after *)
(* the delete what was left there or another value, of which 1, the value  *)
(* that makes unref delete again, stands for all.                          *)
CounterRead == IF destroyed = 0 THEN { RefCount } ELSE { RefCount, 1 }

Dangling == IF destroyed = 0 THEN 0 ELSE 1

RefInit ==
  /\ MainIdle
  /\ GraphIdle
  /\ UnifyIdle
  /\ ExprIdle
  /\ LocIdle
  /\ KindIdle
  /\ pc = "constructed"
  /\ RefCount = 1
  /\ destroyed = 0
  /\ refCalls = 0
  /\ unrefCalls = 0
  /\ danglingCalls = 0

(* N->ref() *)
Ref ==
  /\ refCalls + unrefCalls < MaxCalls
  /\ \E count \in CounterRead : RefCount' = ref(count)
  /\ refCalls' = refCalls + 1
  /\ danglingCalls' = danglingCalls + Dangling
  /\ UNCHANGED << pc, destroyed, unrefCalls >>
  /\ UNCHANGED mainVars
  /\ UNCHANGED << graphVars, unifyVars, exprVars, locVars, kindVars >>

(* N->unref() *)
Unref ==
  /\ refCalls + unrefCalls < MaxCalls
  /\ \E count \in CounterRead :
       /\ RefCount' = unref(count).RefCount
       /\ destroyed' = IF unref(count).deleted THEN destroyed + 1 ELSE destroyed
  /\ unrefCalls' = unrefCalls + 1
  /\ danglingCalls' = danglingCalls + Dangling
  /\ UNCHANGED << pc, refCalls >>
  /\ UNCHANGED mainVars
  /\ UNCHANGED << graphVars, unifyVars, exprVars, locVars, kindVars >>

RefNext ==
  \/ Ref
  \/ Unref

RefSpec == RefInit /\ [][RefNext]_vars

(***************************************************************************)
(* Node kinds and Node::is<Expression> of CST.hpp.                         *)
(***************************************************************************)
NodeKinds ==
  { "Equals", "Colon", "Comma", "Dot", "DotDot", "Tilde", "LParen",
    "RParen", "LBracket", "RBracket", "LBrace", "RBrace", "RArrow",
    "RArrowAlt", "LetKeyword", "MutKeyword", "PubKeyword", "TypeKeyword",
    "ReturnKeyword", "ModKeyword", "StructKeyword", "EnumKeyword",
    "ClassKeyword", "InstanceKeyword", "ElifKeyword", "IfKeyword",
    "ElseKeyword", "MatchKeyword", "Invalid", "EndOfFile", "BlockStart",
    "BlockEnd", "LineFoldEnd", "CustomOperator", "Assignment", "Identifier",
    "IdentifierAlt", "StringLiteral", "IntegerLiteral",
    "TypeclassConstraintExpression", "EqualityConstraintExpression",
    "QualifiedTypeExpression", "ReferenceTypeExpression",
    "ArrowTypeExpression", "AppTypeExpression", "VarTypeExpression",
    "NestedTypeExpression", "TupleTypeExpression", "BindPattern",
    "LiteralPattern", "NamedPattern", "NestedPattern",
    "ReferenceExpression", "MatchCase", "MatchExpression",
    "MemberExpression", "TupleExpression", "NestedExpression",
    "ConstantExpression", "CallExpression", "InfixExpression",
    "PrefixExpression", "RecordExpressionField", "RecordExpression",
    "ExpressionStatement", "ReturnStatement", "IfStatement",
    "IfStatementPart", "TypeAssert", "Parameter", "LetBlockBody",
    "LetExprBody", "LetDeclaration", "RecordDeclarationField",
    "RecordDeclaration", "VariantDeclaration",
    "TupleVariantDeclarationMember", "RecordVariantDeclarationMember",
    "ClassDeclaration", "InstanceDeclaration", "SourceFile" }

(* The kinds of the classes declared with `: public Expression` *)
ExpressionClasses ==
  { "ReferenceExpression", "MatchExpression", "MemberExpression", "TupleExpression",
    "NestedExpression", "ConstantExpression", "CallExpression", "InfixExpression",
    "PrefixExpression", "RecordExpression" }

(* template<> bool is<Expression>() const noexcept *)
isExpressionOf(K) ==
  \/ K = "ReferenceExpression"
  \/ K = "ConstantExpression"
  \/ K = "PrefixExpression"
  \/ K = "InfixExpression"
  \/ K = "CallExpression"
  \/ K = "NestedExpression"

KindInit ==
  /\ MainIdle
  /\ GraphIdle
  /\ UnifyIdle
  /\ ExprIdle
  /\ LocIdle
  /\ RefIdle
  /\ pc = "is<Expression>"
  /\ nodeKind \in NodeKinds
  /\ isExpression = Null

(* N->is<Expression>() *)
IsExpression ==
  /\ pc = "is<Expression>"
  /\ isExpression' = isExpressionOf(nodeKind)
  /\ pc' = "returned"
  /\ UNCHANGED nodeKind
  /\ UNCHANGED mainVars
  /\ UNCHANGED << graphVars, unifyVars, exprVars, locVars, refVars >>

KindNext == IsExpression

KindSpec == KindInit /\ [][KindNext]_vars

(***************************************************************************)
(* Properties.                                                             *)
(***************************************************************************)
CountKind(seq, kind) == Cardinality({ i \in DOMAIN seq : seq[i].kind = kind })

(* What has been read of the filtered stream, up to its first EndOfFile *)
UpToEof == IF EofReads >= 1 THEN Filtered ELSE out

Ended == pc \in {"exited", "terminated"}

(* The file holds the one line whose tokens are LineShapes[k] *)
IsOneLineFile(k) == argc = 2 /\ readable /\ Len(text) = 1 /\ text[1].shape = k

(* C1: in the filtered stream up to the first EndOfFile no prefix holds     *)
(* more BlockEnd than BlockStart tokens, and the whole of it holds as many  *)
(* BlockEnd as BlockStart tokens.                                           *)
BlocksBalanced ==
  /\ \A k \in 0..Len(UpToEof) :
       CountKind(SubSeq(UpToEof, 1, k), "BlockEnd") <= CountKind(SubSeq(UpToEof, 1, k), "BlockStart")
  /\ EofReads >= 1 => CountKind(Filtered, "BlockEnd") = CountKind(Filtered, "BlockStart")

(* C1 witness: a whole stream has been read in which a block was opened and *)
(* closed again by a line further to the left                              *)
BlocksBalancedWitness ==
  /\ EofReads >= 1
  /\ CountKind(Filtered, "BlockStart") >= 1
  /\ CountKind(SubSeq(out, 1, outAtEof), "BlockEnd") >= 1

(* C2: every non-empty logical line is terminated by exactly one            *)
(* LineFoldEnd: the filtered stream of a non-empty source holds, up to its  *)
(* first EndOfFile, one LineFoldEnd for each logical line of the source.    *)
OneLineFoldEndPerLogicalLine ==
  (EofReads >= 1 /\ raw # << >>) =>
    CountKind(Filtered, "LineFoldEnd") = Cardinality(lineStarts)

(* C3: once the raw stream is exhausted with n blocks open, the filter      *)
(* yields n BlockEnd tokens, one LineFoldEnd, and EndOfFile on that and     *)
(* every later read; no EndOfFile is read before the raw stream is          *)
(* exhausted.                                                               *)
FlushThenEndOfFileForever ==
  /\ outAtEof = -1 => CountKind(out, "EndOfFile") = 0
  /\ outAtEof >= 0 =>
       /\ Cardinality({ i \in 1..outAtEof : out[i].kind \notin SyntheticKinds }) = Len(raw)
       /\ \A k \in 1..(Len(out) - outAtEof) :
            out[outAtEof + k].kind =
              IF k <= openAtEof THEN "BlockEnd"
              ELSE IF k = openAtEof + 1 THEN "LineFoldEnd"
              ELSE "EndOfFile"

(* C3 witness: two blocks were open at the end and EndOfFile was read twice *)
FlushThenEndOfFileForeverWitness == openAtEof >= 2 /\ EofReads >= 2

(* C4: a file that holds one integer literal is parsed and checked without  *)
(* any diagnostic and the type recorded for the expression is Int.          *)
IntegerLiteralInfersInt ==
  IsOneLineFile(1) =>
    /\ pc # "terminated" /\ thrown = Null
    /\ pc \in {"sort", "print", "exited"} =>
         /\ Diagnostics = << >>
         /\ Len(SF.Elements) = 1
         /\ SF.Elements[1].kind = "ExpressionStatement"
         /\ types[SF.Elements[1].Expression] = getIntType
    /\ pc = "exited" => printed = << >>

(* C4 witness: such a file has gone through the whole of main *)
IntegerLiteralInfersIntWitness ==
  /\ IsOneLineFile(1) /\ pc = "exited" /\ text[1].col = 2
  /\ types[SF.Elements[1].Expression] = getIntType

(* C5: let a: Int = "f" yields exactly one diagnostic, a UnificationError   *)
(* whose left operand is Int and whose right operand is String.             *)
AnnotatedLiteralMismatch ==
  (IsOneLineFile(NumCommon + 1) /\ Ended) =>
    /\ thrown = Null
    /\ Len(Diagnostics) = 1
    /\ Diagnostics[1].kind = "UnificationError"
    /\ Diagnostics[1].left = getIntType
    /\ Diagnostics[1].right = getStringType

(* The class of each class method: class Show a. let show : a -> String *)
ClassOfMethod(name) == IF name = << "s", "h", "o", "w" >> THEN { << "S", "h", "o", "w" >> } ELSE {}

(* The constraints a signature declares and those its body needs, read off *)
(* the tokens of the line                                                  *)
PositionsOf(toks, kind) == { i \in DOMAIN toks : toks[i].kind = kind }

HasSignature(toks) == PositionsOf(toks, "Colon") # {}

DeclaredClasses(toks) ==
  { toks[i].text : i \in { j \in PositionsOf(toks, "IdentifierAlt") :
                             \E a \in PositionsOf(toks, "RArrowAlt") : j < a } }

InferredClasses(toks) ==
  UNION { ClassOfMethod(toks[i].text) :
            i \in { j \in PositionsOf(toks, "Identifier") :
                      \E e \in PositionsOf(toks, "Equals") : j > e } }

Count2201 == Cardinality({ i \in DOMAIN Diagnostics : Diagnostics[i].code = 2201 })

(* C6: a let binding with an explicit signature gets exactly one diagnostic *)
(* 2201 when its body needs a class constraint the signature does not       *)
(* declare, and no diagnostic when the signature declares all of them.      *)
SignatureMismatchIffNotEntailed ==
  (argc = 2 /\ readable /\ Len(text) = 1 /\ Ended /\ HasSignature(raw)
     /\ InferredClasses(raw) # {}) =>
    IF InferredClasses(raw) \subseteq DeclaredClasses(raw)
    THEN thrown = Null /\ Diagnostics = << >>
    ELSE thrown = Null /\ Count2201 = 1

ErrorProduced == thrown # Null \/ Diagnostics # << >>

(* C7: bolt <path> ends with status 1 whenever the file could not be read   *)
(* or an error diagnostic was produced, and with status 0 only when the     *)
(* file was read and no error diagnostic was produced.                      *)
ExitStatusReportsErrors ==
  (argc = 2 /\ Ended) =>
    /\ (~readable \/ ErrorProduced) => exitStatus = 1
    /\ exitStatus = 0 => (readable /\ ~ErrorProduced)

LexLessEq(N1, N2) ==
  \/ getStartLine(N1) < getStartLine(N2)
  \/ getStartLine(N1) = getStartLine(N2) /\ getStartColumn(N1) <= getStartColumn(N2)

(* C8: the diagnostics handed to the printer are in nondecreasing           *)
(* lexicographic order of (start line, start column) of their nodes.        *)
PrintedInSourceOrder ==
  pc = "exited" =>
    \A i, j \in DOMAIN printed : i < j => LexLessEq(printed[i].node, printed[j].node)

(* Lines after line ln that are well-formed elements of their own *)
WellFormedLinesAfter(ln) ==
  { k \in DOMAIN text : k > ln /\ text[k].col = 1 /\ text[k].shape \in {1, 2, 4} }

(* C9: when the parser meets an unexpected token, one UnexpectedToken       *)
(* diagnostic is recorded, parsing goes on and parseSourceFile returns a    *)
(* SourceFile that holds the well-formed elements after the error.          *)
RecoversFromUnexpectedToken ==
  thrown # Null =>
    /\ SF.kind = "SourceFile"
    /\ Cardinality({ i \in DOMAIN Diagnostics : Diagnostics[i].kind = "UnexpectedToken" }) = 1
    /\ \A k \in WellFormedLinesAfter(thrown.token.line) :
         \E n \in Nodes(SF) : IsToken(n) /\ n.line = k

(* C10: for every node of a parsed CST, tokens included, getFirstToken and  *)
(* getLastToken return a token and getRange is (first token's start, last   *)
(* token's end).                                                            *)
RangeIsFirstToLastToken ==
  SF # Null =>
    \A n \in Nodes(SF) :
      /\ IsToken(getFirstToken(n))
      /\ IsToken(getLastToken(n))
      /\ getRange(n) = [Start |-> getStartLoc(getFirstToken(n)),
                        End |-> getEndLoc(getLastToken(n))]

(* The node reached from n by following Parent k times, Null once the root *)
(* has been passed                                                         *)
RECURSIVE Ancestor(_, _)
Ancestor(n, k) ==
  IF k = 0 \/ n = Null THEN n
  ELSE Ancestor(IF n \in DOMAIN Parent THEN Parent[n] ELSE Null, k - 1)

Holders(n) == { m \in Nodes(SF) : n \in Range(Children(m)) }

ParentsAreSet == pc \in {"check", "sort", "print"} \/ (pc = "exited" /\ SF # Null)

Scopes == { n \in Nodes(SF) : n.kind \in ScopeOwnerKinds }

Names == { << "f" >>, << "g" >>, << "x" >> }

ScopesAreBuilt == ParentsAreSet \/ pc = "populated" \/ aborted # Null

DeclaredIn(S, name, kind) == { e \in Mapping(S) : e.name = name /\ e.kind = kind }

(* C12: lookupDirect returns a declaration that this very scope holds      *)
(* under the name and kind asked for, and null when the scope holds none,  *)
(* whatever the enclosing scopes declare.                                  *)
LookupDirectStaysLocal ==
  ScopesAreBuilt =>
    \A S \in Scopes : \A name \in Names : \A kind \in SymbolKinds :
      IF DeclaredIn(S, name, kind) = {}
      THEN lookupDirect(S, SymbolPath(<< >>, name), kind) = Null
      ELSE \E e \in DeclaredIn(S, name, kind) :
             lookupDirect(S, SymbolPath(<< >>, name), kind) = e.decl

(* C12 witness: a scope that does not declare a name its enclosing scope   *)
(* declares                                                                *)
LookupDirectStaysLocalWitness ==
  /\ ScopesAreBuilt
  /\ \E S \in Scopes : \E name \in Names :
       /\ lookupDirect(S, SymbolPath(<< >>, name), "Var") = Null
       /\ getParentScope(S) # Null
       /\ DeclaredIn(getParentScope(S), name, "Var") # {}

(* The scopes from S outwards *)
RECURSIVE ScopeChain(_)
ScopeChain(S) ==
  << S >> \o (IF getParentScope(S) = Null THEN << >> ELSE ScopeChain(getParentScope(S)))

DeclaringScopes(S, name, kind) ==
  { i \in DOMAIN ScopeChain(S) : DeclaredIn(ScopeChain(S)[i], name, kind) # {} }

Nearest(hits) == CHOOSE i \in hits : \A j \in hits : i <= j

(* C13: lookup returns what lookupDirect returns in the nearest scope from  *)
(* this one outwards that declares the name, and null exactly when no      *)
(* scope on the way to the root declares it.                               *)
LookupFindsNearest ==
  ScopesAreBuilt =>
    \A S \in Scopes : \A name \in Names : \A kind \in SymbolKinds :
      IF DeclaringScopes(S, name, kind) = {}
      THEN lookup(S, SymbolPath(<< >>, name), kind) = Null
      ELSE /\ lookup(S, SymbolPath(<< >>, name), kind) # Null
           /\ lookup(S, SymbolPath(<< >>, name), kind) =
                lookupDirect(ScopeChain(S)[Nearest(DeclaringScopes(S, name, kind))],
                             SymbolPath(<< >>, name), kind)

(* C13 witness: a name declared in two scopes of one chain, the inner       *)
(* declaration shadowing the outer one                                     *)
LookupFindsNearestWitness ==
  /\ ScopesAreBuilt
  /\ \E S \in Scopes : \E name \in Names :
       /\ Cardinality(DeclaringScopes(S, name, "Var")) >= 2
       /\ 1 \notin DeclaringScopes(S, name, "Var")

References(n) == { r \in Nodes(n) : r.kind = "ReferenceExpression" }

Referent(r) == lookup(getScope(r), getSymbolPath(r.Name), "Var")

(* C19: once the graph is populated, every let declaration d1 is connected *)
(* to the declaration d2 of every reference r anywhere in its body, by the *)
(* edges d1 -> r and r -> d2.                                              *)
GraphConnectsBodyReferences ==
  pc = "populated" =>
    \A d1 \in { n \in Nodes(SF) : n.kind = "LetDeclaration" } :
      \A r \in References(d1.Body) :
        Referent(r) # Null =>
          Edge(d1, r) \in Edges /\ Edge(r, Referent(r)) \in Edges

UnboundReferences == { r \in References(SF) : Referent(r) = Null }

(* C20: a reference that resolves in no enclosing scope is reported as a    *)
(* BindingNotFound diagnostic and does not end the run: after populate has *)
(* dealt with the file no assertion has failed and every such reference     *)
(* has its diagnostic.                                                     *)
UnboundReferenceIsReported ==
  (pc = "populated" \/ (aborted # Null /\ aborted.by = "ZEN_ASSERT")) =>
    /\ aborted = Null
    /\ \A r \in UnboundReferences :
         \E i \in DOMAIN Diagnostics : Diagnostics[i] = BindingNotFound(r)

Checked == pc \in {"sort", "print"} \/ (pc = "exited" /\ SF # Null)

PatternKinds == {"BindPattern"}

(* The unification variables of a type, each with the level it was made at *)
FreeVariables(type) == IF "var" \in DOMAIN type THEN { type } ELSE {}

(* C14: after checking, every expression node and every pattern node has  *)
(* an inferred type that is not null and holds no unification variable     *)
(* above the level of the enclosing scheme (level 0 at the top of a file). *)
ExpressionsAndPatternsAreTyped ==
  Checked =>
    \A n \in { m \in Nodes(SF) : m.kind \in ExpressionKinds \cup PatternKinds } :
      /\ n \in DOMAIN types
      /\ types[n] # Null
      /\ \A v \in FreeVariables(types[n]) : "level" \in DOMAIN v => v.level <= 0

(* The variables that stand for the same type as v *)
SameClass(v, S) == { u \in TypeVars : find(TypeVar(u), S) = find(TypeVar(v), S) }

(* A substitution applied to a type, every class of variables that is not  *)
(* bound written as its least member: substitutions that differ only in    *)
(* the choice of representatives apply alike.                              *)
RECURSIVE Applied(_, _)
AppliedRoot(r, S) ==
  IF IsTypeVar(r)
  THEN TypeVar(CHOOSE u \in SameClass(r.var, S) : \A w \in SameClass(r.var, S) : u <= w)
  ELSE IF IsArrow(r)
  THEN ArrowType([i \in DOMAIN r.params |-> Applied(r.params[i], S)], Applied(r.result, S))
  ELSE r

Applied(t, S) == AppliedRoot(find(t, S), S)

UpToRenaming(S) == [v \in TypeVars |-> Applied(TypeVar(v), S)]

(* C15: unify(t, t) succeeds and leaves the substitution as it was;        *)
(* unify(a, b) fails exactly when unify(b, a) fails on the same            *)
(* substitution; and unify(b, a) after unify(a, b) leaves the substitution *)
(* of unify(a, b) alone, up to the renaming of variables.                  *)
UnifyIsIdempotentAndSymmetric ==
  /\ Len(unified) >= 1 =>
       /\ TypeA = TypeB =>
            /\ unified[1].ok
            /\ UpToRenaming(unified[1].after) = UpToRenaming(unified[1].before)
       /\ unified[1].ok = unify(TypeB, TypeA, Unifying(unified[1].before)).ok
  /\ Len(unified) = 2 =>
       /\ UpToRenaming(unified[2].after) = UpToRenaming(unified[1].after)
       /\ unified[2].ok = unified[1].ok

(* Two different arrows were unified both ways and a variable was bound *)
UnifyIsIdempotentAndSymmetricWitness ==
  /\ Len(unified) = 2
  /\ IsArrow(TypeA) /\ IsArrow(TypeB) /\ TypeA # TypeB
  /\ unified[1].ok
  /\ UpToRenaming(unified[1].after) # UpToRenaming(unified[1].before)

(* C16: the occurs check reports let loop f = f f with exactly one          *)
(* OccursCheck diagnostic, and the file is checked to its end.              *)
OccursCheckIsReported ==
  (IsOneLineFile(Compound(1)) /\ Ended) =>
    /\ thrown = Null
    /\ Len(Diagnostics) = 1
    /\ Diagnostics[1].kind = "OccursCheck"

BoolType == [con |-> << "B", "o", "o", "l" >>]

(* C17: the mutually recursive even and odd are inferred as one component: *)
(* the file checks with no diagnostic and both get the type Int -> Bool.    *)
EvenOddAreInferredTogether ==
  (argc = 2 /\ readable /\ text = EvenOdd /\ Ended) =>
    /\ thrown = Null
    /\ Diagnostics = << >>
    /\ Len(SF.Elements) = 2
    /\ \A i \in 1..2 :
         /\ SF.Elements[i] \in DOMAIN types
         /\ types[SF.Elements[i]] = ArrowType(<< getIntType >>, BoolType)

(* What the operator table says of a token as an infix operator, or Null *)
InfixOf(T) == getInfix(ExprOperators, T)

(* The token is an infix operator of precedence Min or more *)
Consumable(T, Min) == InfixOf(T) # Null /\ InfixOf(T).Precedence >= Min

(* The tokens of an expression, left to right *)
RECURSIVE TokensOf(_)
TokensOf(E) ==
  IF E.kind = "InfixExpression"
  THEN TokensOf(E.LHS) \o << E.Operator >> \o TokensOf(E.RHS)
  ELSE << E.Name >>

(* The operators the outermost loop consumed: those down the left operands *)
RECURSIVE OuterOperators(_)
OuterOperators(E) ==
  IF E.kind = "InfixExpression" THEN OuterOperators(E.LHS) \cup { E.Operator } ELSE {}

(* An operand that is itself an infix expression binds tighter than the    *)
(* operator it is an operand of: its operator has a higher precedence, or  *)
(* the same and it is a left operand of a left-associative operator, or a  *)
(* right operand of a right-associative one.                               *)
RECURSIVE BindsTighter(_)
BindsTighter(E) ==
  E.kind = "InfixExpression" =>
    /\ InfixOf(E.Operator) # Null
    /\ E.LHS.kind = "InfixExpression" =>
         \/ InfixOf(E.LHS.Operator).Precedence > InfixOf(E.Operator).Precedence
         \/ /\ InfixOf(E.LHS.Operator).Precedence = InfixOf(E.Operator).Precedence
            /\ ~isRightAssoc(InfixOf(E.LHS.Operator))
    /\ E.RHS.kind = "InfixExpression" =>
         \/ InfixOf(E.RHS.Operator).Precedence > InfixOf(E.Operator).Precedence
         \/ /\ InfixOf(E.RHS.Operator).Precedence = InfixOf(E.Operator).Precedence
            /\ isRightAssoc(InfixOf(E.Operator))
    /\ BindsTighter(E.LHS)
    /\ BindsTighter(E.RHS)

RECURSIVE DottedPath(_, _, _)
DottedPath(toks, i, ModulePath) ==
  IF Tok(toks, i).kind # "Identifier"
  THEN UnexpectedTokenDiagnostic(Tok(toks, i), << "Identifier" >>)
  ELSE IF Tok(toks, i + 1).kind = "Dot"
  THEN DottedPath(toks, i + 2, Append(ModulePath, Tok(toks, i)))
  ELSE Ok([kind |-> "QualifiedName", ModulePath |-> ModulePath, Name |-> Tok(toks, i)],
          i + 1)

(* C21: parseQualifiedName reads a maximal Identifier ('.' Identifier)*    *)
(* and nothing more: a single identifier that no '.' follows gives an      *)
(* empty module path and one consumed token; a token that is no identifier *)
(* where one is required raises UnexpectedToken expecting Identifier.      *)
QualifiedNameIsMaximalPath ==
  pc = "parsedQualifiedName" => parsed = DottedPath(Tokens, 1, << >>)

(* The grammar of a let declaration, as the positions reached from the    *)
(* positions P: after one token of a kind, after an optional one, after    *)
(* any number of them.                                                     *)
Step(toks, P, kind) == { q + 1 : q \in { p \in P : Tok(toks, p).kind = kind } }

Opt(toks, P, kind) == P \cup Step(toks, P, kind)

RECURSIVE Star(_, _, _)
Star(toks, P, kind) ==
  IF Step(toks, P, kind) \subseteq P THEN P ELSE Star(toks, Opt(toks, P, kind), kind)

(* ('.' Identifier)* *)
RECURSIVE DotStar(_, _)
DotStar(toks, P) ==
  IF Step(toks, Step(toks, P, "Dot"), "Identifier") \subseteq P THEN P
  ELSE DotStar(toks, P \cup Step(toks, Step(toks, P, "Dot"), "Identifier"))

(* (':' type)? *)
OptType(toks, P) ==
  P \cup DotStar(toks, Step(toks, Step(toks, P, "Colon"), "Identifier"))

ExprEnds(toks, P) ==
  Step(toks, P, "Identifier") \cup Step(toks, P, "IntegerLiteral")
    \cup Step(toks, P, "StringLiteral")

RECURSIVE LetEnds(_, _)
RECURSIVE ElementStar(_, _)
(* element*: an element is a let declaration or an expression and its LineFoldEnd *)
ElementsAfter(toks, P) ==
  Step(toks, ExprEnds(toks, P), "LineFoldEnd") \cup UNION { LetEnds(toks, p) : p \in P }

ElementStar(toks, P) ==
  IF ElementsAfter(toks, P) \subseteq P THEN P
  ELSE ElementStar(toks, P \cup ElementsAfter(toks, P))

(* ('=' expr | BlockStart element* BlockEnd)? *)
OptBody(toks, P) ==
  P \cup ExprEnds(toks, Step(toks, P, "Equals"))
    \cup Step(toks, ElementStar(toks, Step(toks, P, "BlockStart")), "BlockEnd")

(* The positions after a let declaration that starts at token i *)
LetEnds(toks, i) ==
  Step(toks,
       OptBody(toks,
         OptType(toks,
           Star(toks,
             Step(toks,
               Opt(toks, Step(toks, Opt(toks, { i }, "PubKeyword"), "LetKeyword"),
                   "MutKeyword"),
               "Identifier"),
             "Identifier"))),
       "LineFoldEnd")

(* C22: parseLetDeclaration succeeds exactly on the streams that start     *)
(* with pub? let mut? pattern param* (':' type)? ('=' expr | BlockStart    *)
(* element* BlockEnd)? LineFoldEnd, consumes exactly those tokens, and     *)
(* raises UnexpectedToken on every other stream.                           *)
LetDeclarationIsItsGrammar ==
  pc = "parsedLetDeclaration" =>
    /\ parsed.ok <=> LetEnds(Tokens, 1) # {}
    /\ parsed.ok => parsed.pos \in LetEnds(Tokens, 1)
    /\ ~parsed.ok => parsed.token # Null

(* The stream with a token of another kind at position p; the EndOfFile   *)
(* that ends the stream stays behind a token put in its place.             *)
WithKind(toks, p, kind) ==
  IF p < Len(toks) THEN [toks EXCEPT ![p] = Token(kind, KindText(kind), 1, p)]
  ELSE TokenStream([k \in 1..Len(toks) |-> IF k < Len(toks) THEN toks[k].kind ELSE kind])

(* The kinds parseSourceFile accepts at position p: with a token of that   *)
(* kind there it returns, or throws at another token.                      *)
ParsedWith(R, p) == R.ok \/ R.token.col # p

AcceptedAt(toks, p) ==
  { kind \in ParserKinds \cup { "StringLiteral", "EndOfFile" } :
      ParsedWith(parseSourceFile(WithKind(toks, p, kind), Null), p) }

(* C23: an UnexpectedToken carries the offending token and, as its         *)
(* expected set, the kinds the parser accepts at the position of that      *)
(* token.                                                                  *)
ExpectedIsWhatIsAccepted ==
  (pc = "parsedSourceFile" /\ ~parsed.ok) =>
    /\ parsed.token = Tokens[parsed.token.col]
    /\ Range(parsed.expected) = AcceptedAt(Tokens, parsed.token.col)

(* The newline bytes of a text, and the bytes after the last of them *)
Newlines(T) == { i \in DOMAIN T : T[i] = "\n" }

AfterLastNewline(T) == Len(T) - (CHOOSE i \in Newlines(T) : \A j \in Newlines(T) : j <= i)

LocPlusText(loc, T) ==
  [Line   |-> loc.Line + Cardinality(Newlines(T)),
   Column |-> IF Newlines(T) = {} THEN loc.Column + Len(T) ELSE 1 + AfterLastNewline(T)]

ComparatorIsStrictWeakOrdering ==
  pc = "sort" =>
    /\ \A a \in Range(Diagnostics) : ~LT(a, a)
    /\ \A a, b \in Range(Diagnostics) : ~(LT(a, b) /\ LT(b, a))
    /\ \A a, b, c \in Range(Diagnostics) : (LT(a, b) /\ LT(b, c)) => LT(a, c)
    /\ \A a, b \in Range(Diagnostics) :
         (a.node = Null /\ b.node # Null) => (LT(a, b) /\ ~LT(b, a))

(* One iteration of a loop that started at token i and gave R went on to  *)
(* a later token and took no token from behind the EndOfFile.              *)
Consumed(R, i) == R.ok => (i < R.pos /\ R.pos <= Len(Tokens))

(* The dotted-name loop took two tokens for every segment it added *)
ConsumedSegments(R, i) ==
  R.ok => (R.pos = i + 2 * Len(R.node.ModulePath) /\ R.pos <= Len(Tokens))

(* The lookahead over modifiers went forward over pub and mut only *)
LookedAhead(T, i) ==
  /\ T.col >= i
  /\ \A k \in i..(T.col - 1) : Tokens[k].kind \in {"PubKeyword", "MutKeyword"}

(* C26: on a stream of finitely many tokens and then EndOfFile for ever,   *)
(* every iteration of the loops over parameters, modifiers, dotted-name    *)
(* segments, block elements and source elements takes a token that is      *)
(* there, moves the lookahead forward or leaves the loop, and              *)
(* parseSourceFile ends: it returns a SourceFile in front of the EndOfFile *)
(* or raises UnexpectedToken.                                              *)
ParserLoopsEnd ==
  /\ \A i \in DOMAIN Tokens : Consumed(parsePattern(Tokens, i), i)
  /\ \A i \in DOMAIN Tokens : LookedAhead(peekFirstTokenAfterModifiers(Tokens, i), i)
  /\ \A i \in DOMAIN Tokens :
       ConsumedSegments(QualifiedNameLoop(Tokens, i, << >>, Tokens[i]), i)
  /\ \A i \in DOMAIN Tokens : Consumed(parseLetBodyElement(Tokens, i, Null), i)
  /\ \A i \in DOMAIN Tokens : Consumed(parseSourceElement(Tokens, i, Null), i)
  /\ pc = "parsedSourceFile" =>
       \/ /\ parsed.ok
          /\ parsed.node.kind = "SourceFile"
          /\ Tokens[parsed.pos].kind = "EndOfFile"
       \/ /\ ~parsed.ok
          /\ parsed.token # Null

(* parseSourceFile returned a let declaration with a parameter and a block *)
(* that holds an element: three of the loops went round.                   *)
ParserLoopsEndWitness ==
  /\ pc = "parsedSourceFile"
  /\ parsed.ok
  /\ parsed.node.Elements # << >>
  /\ parsed.node.Elements[1].kind = "LetDeclaration"
  /\ parsed.node.Elements[1].Params # << >>
  /\ parsed.node.Elements[1].Body.kind = "LetBlockBody"
  /\ parsed.node.Elements[1].Body.Elements # << >>

(* C27: populate reaches no unreachable branch on a file the parser has   *)
(* returned and in which every reference resolves: a run that ended in    *)
(* ZEN_UNREACHABLE had a reference that resolves nowhere.                  *)
PopulateHandlesEveryParsedKind ==
  (aborted # Null /\ aborted.by = "ZEN_UNREACHABLE") => UnboundReferences # {}

(* The file is the header of a let declaration, `let f` or `let f =`, and *)
(* after it lines that all start at one column further to the right, each *)
(* an expression or a let declaration of one line.                         *)
IsLetWithBlock ==
  /\ argc = 2
  /\ readable
  /\ Len(text) >= 2
  /\ text[1].shape \in {3, LetHeader}
  /\ text[2].col > text[1].col
  /\ \A k \in 2..Len(text) : text[k].col = text[2].col /\ text[k].shape \in {1, 2, 4}

(* C28: the filtered stream of a let declaration with a well-indented      *)
(* block for a body is accepted by the parser: parseSourceFile raises no   *)
(* UnexpectedToken on it.                                                  *)
LetBlockIsAccepted == IsLetWithBlock => thrown = Null

(* The node lives as long as more references were taken than given back, *)
(* it was deleted once at most, when as many were given back as taken, and *)
(* the counter of a living node is the number of references held.          *)
CountGoverns ==
  /\ destroyed <= 1
  /\ destroyed = 0 <=> 1 + refCalls - unrefCalls > 0
  /\ destroyed = 0 => RefCount = 1 + refCalls - unrefCalls
  /\ RefCount >= 0

(* C29 as stated: after any sequence of ref() and unref() calls the node   *)
(* is alive iff 1 + ref calls - unref calls > 0, it was destroyed at most  *)
(* once, and its counter has not wrapped below 0.                          *)
RefCountGovernsAnySequence == CountGoverns

(* C29 amended: the same for the sequences in which no call is made on the *)
(* node after the unref() that deleted it; the node is then deleted by the *)
(* unref() that brings 1 + ref calls - unref calls to 0.                   *)
RefCountGovernsLivingNode ==
  danglingCalls = 0 =>
    /\ CountGoverns
    /\ destroyed = 1 => (RefCount = 0 /\ 1 + refCalls - unrefCalls = 0)

(* A node that was shared twice and given back by all three holders *)
RefCountGovernsLivingNodeWitness ==
  /\ danglingCalls = 0
  /\ destroyed = 1
  /\ refCalls = 2
  /\ unrefCalls = 3

(* C30: is<Expression>() returns true for the kinds of the classes that  *)
(* derive from Expression and false for every other kind.                  *)
IsExpressionOfExpressionClasses ==
  pc = "returned" => (isExpression <=> nodeKind \in ExpressionClasses)

====
